---- MODULE Spec2Model ----
(***************************************************************************)
(* Intent-driven UI core: the reconciliation engine (ui-state-engine.ts),  *)
(* the fact store (data-store), the reference memory (intent-memory), the  *)
(* suggestion engine (predictive-actions.ts) and the orchestrator that     *)
(* ties them together (ui-orchestrator).                                   *)
(*                                                                         *)
(* Conventions.  A JavaScript value that may be `undefined` is a sequence  *)
(* of length at most one (<<>> is undefined, <<v>> is v).  A fact value is *)
(* a one-field record: [num |-> n], [str |-> s] or [obj |-> name].         *)
(* Confidences are in tenths (0.8 is 8).  The timestamp of a fact entry is *)
(* written by the code but read by none of the modelled operations and is  *)
(* left out of the entries.                                                *)
(***************************************************************************)
EXTENDS Integers, Sequences, FiniteSets, TLC

VARIABLES
    state,            \* UIStateEngine.state: components in key (insertion) order
    nextOrder,        \* UIStateEngine.nextOrder
    version,          \* UIStateEngine.version
    listeners,        \* UIStateEngine.listeners, in insertion order
    data,             \* DataStore.data: key -> entry
    userProvidedKeys, \* DataStore.userProvidedKeys
    intents,          \* IntentMemoryEngine.intents
    references,       \* IntentMemoryEngine.references: key -> reference
    currentIntentId,  \* IntentMemoryEngine.currentIntentId
    handlerRegistry,  \* ui-orchestrator handlerRegistry (names of the handlers set)
    now,              \* Date.now()
    intentSeq,        \* number of intents recorded so far (makes intent ids unique)
    calls,            \* number of top-level calls made so far
    call,             \* the last top-level call: its name and argument
    batch,            \* the OrchestratorAction the last call returned
    notified,         \* the notifications the listeners received during the last call
    isProcessing,     \* OrchestratorClient's isProcessing, as of the latest render
    inFlight          \* the orchestrator calls awaiting their decision step

vars == <<state, nextOrder, version, listeners, data, userProvidedKeys, intents,
          references, currentIntentId, handlerRegistry, now, intentSeq, calls,
          call, batch, notified, isProcessing, inFlight>>

-----------------------------------------------------------------------------
(* Bounds of the model *)

MaxCalls == 3
MaxEngineCalls == 3
MemMaxIntents == 2
MemMaxAge == 2
MemMaxTime == 3
MemMaxRecords == 3

-----------------------------------------------------------------------------
(* Optional values and small helpers *)

None == <<>>
Some(v) == <<v>>
OrElse(o, d) == IF o = <<>> THEN d ELSE o[1]
Truthy(o) == o = <<TRUE>>

Merge(p, q) == [k \in (DOMAIN p) \cup (DOMAIN q) |-> IF k \in DOMAIN q THEN q[k] ELSE p[k]]

Range(s) == {s[i] : i \in 1..Len(s)}

\* xs.map(x => x.id)
Ids(xs) == [i \in 1..Len(xs) |-> xs[i].id]

Digits == "0123456789"

IsDigit(c) == \E i \in 1..10 : SubSeq(Digits, i, i) = c

DigitValue(c) == (CHOOSE i \in 1..10 : SubSeq(Digits, i, i) = c) - 1

RECURSIVE DigitsValue(_)
DigitsValue(s) ==
    IF s = "" THEN 0
    ELSE DigitsValue(SubSeq(s, 1, Len(s) - 1)) * 10 + DigitValue(SubSeq(s, Len(s), Len(s)))

AllDigits(s) == Len(s) > 0 /\ \A i \in 1..Len(s) : IsDigit(SubSeq(s, i, i))

-----------------------------------------------------------------------------
(* Strings: String.prototype.includes / startsWith / toLowerCase / trim *)

Includes(s, p) == \E i \in 1..(Len(s) - Len(p) + 1) : SubSeq(s, i, i + Len(p) - 1) = p

StartsWith(s, p) == Len(p) <= Len(s) /\ SubSeq(s, 1, Len(p)) = p

UpperCase == "ABCDEFGHIJKLMNOPQRSTUVWXYZ"
LowerCase == "abcdefghijklmnopqrstuvwxyz"

\* the character c in lower case: the letter at c's place in the alphabet, if any
LowerChar(c) ==
    LET lower(at) == IF at = {} THEN c
                     ELSE SubSeq(LowerCase, CHOOSE i \in at : TRUE, CHOOSE i \in at : TRUE)
    IN lower({i \in 1..26 : SubSeq(UpperCase, i, i) = c})

\* the lower-case form of s[i..j], character by character
RECURSIVE ToLowerRange(_, _, _)
ToLowerRange(s, i, j) ==
    IF i > j THEN ""
    ELSE IF i = j THEN LowerChar(SubSeq(s, i, i))
    ELSE LET m == (i + j) \div 2
         IN ToLowerRange(s, i, m) \o ToLowerRange(s, m + 1, j)

ToLowerFrom(s, i) == ToLowerRange(s, i, Len(s))

\* the (type, id) pairs of the descriptors the orchestrator renders
KnownComponents ==
    {<<"InputForm", "salary-data-form">>, <<"SummaryCards", "salary-comparison-cards">>,
     <<"ChartView", "salary-comparison-chart">>, <<"InsightSummary", "export-success">>,
     <<"ExportActions", "export-actions">>, <<"InputForm", "expense-data-form">>,
     <<"SummaryCards", "expense-summary">>, <<"InsightSummary", "expense-breakdown">>,
     <<"GuardrailModal", "confirm-clear">>, <<"GuardrailModal", "confirm-data-deletion">>,
     <<"EmptyState", "empty-state">>, <<"PredictiveActionBar", "predictive-actions">>}

\* `${userInput} [referencing: ${type} id:${id}]`
Annotate(userInput, type, id) ==
    userInput \o " [referencing: " \o type \o " id:" \o id \o "]"

\* texts a user submits
Inputs ==
    {"", "  ", "hello", "show salary comparison", "delete all my data",
     "delete all my data and expenses", "please delete all my data behind this",
     "clear the screen", "confirmed", "export this report"}

\* the texts handleFormSubmission builds from the forms of the model
FormTexts ==
    {"Form submitted with salary.lastMonth: 5000, salary.currentMonth: 5500",
     "Form submitted with salary.lastMonth: 6000, salary.currentMonth: 5500",
     "Form submitted with salary.lastMonth: abc"}

\* the texts the decision step can be given, with and without annotation
KnownTexts ==
    (Inputs \cup FormTexts)
    \cup {Annotate(t, c[1], c[2]) : t \in Inputs \cup FormTexts, c \in KnownComponents}

\* s.toLowerCase()
ToLowerCase(s) == ToLowerFrom(s, 1)

IsBlank(s) == \A i \in 1..Len(s) : SubSeq(s, i, i) = " "

WordChars == "abcdefghijklmnopqrstuvwxyzABCDEFGHIJKLMNOPQRSTUVWXYZ0123456789_"

IsWordChar(c) == \E i \in 1..Len(WordChars) : SubSeq(WordChars, i, i) = c

\* whether position i of s (1-based) holds a word character
WordAt(s, i) == i >= 1 /\ i <= Len(s) /\ IsWordChar(SubSeq(s, i, i))

\* the regular expression assertion \b between positions i-1 and i
Boundary(s, i) == WordAt(s, i - 1) # WordAt(s, i)

\* the end (exclusive) of the longest run of word characters starting at i
RECURSIVE WordEnd(_, _)
WordEnd(s, i) == IF WordAt(s, i) THEN WordEnd(s, i + 1) ELSE i

LitAt(s, i, p) == i + Len(p) - 1 <= Len(s) /\ SubSeq(s, i, i + Len(p) - 1) = p

RECURSIVE TrimStart(_)
TrimStart(s) == IF Len(s) > 0 /\ SubSeq(s, 1, 1) = " " THEN TrimStart(SubSeq(s, 2, Len(s))) ELSE s

RECURSIVE TrimEnd(_)
TrimEnd(s) == IF Len(s) > 0 /\ SubSeq(s, Len(s), Len(s)) = " " THEN TrimEnd(SubSeq(s, 1, Len(s) - 1)) ELSE s

Trim(s) == TrimEnd(TrimStart(s))

\* [...new Set(xs)]: the distinct elements in order of first appearance
RECURSIVE Dedupe(_)
Dedupe(xs) ==
    IF xs = <<>> THEN <<>>
    ELSE LET add(front, last) == IF last \in Range(front) THEN front
                                 ELSE Append(front, last)
         IN add(Dedupe(SubSeq(xs, 1, Len(xs) - 1)), xs[Len(xs)])

-----------------------------------------------------------------------------
(* IntentMemoryEngine.extractReferences: the four patterns, each matched  *)
(* globally (leftmost, non-overlapping) against the text as given          *)

\* /\bthis\b/ and /\bthat\b/ : end (exclusive) of a match of word w at i, or 0
MatchWord(s, i, w) ==
    IF Boundary(s, i) /\ LitAt(s, i, w) /\ Boundary(s, i + Len(w)) THEN i + Len(w) ELSE 0

\* /\bthe (above )?(\w+)\b/ : end (exclusive) of a match at i, or 0
MatchThe(s, i) ==
    IF Boundary(s, i) /\ LitAt(s, i, "the ")
    THEN IF LitAt(s, i + 4, "above ") /\ WordAt(s, i + 10) THEN WordEnd(s, i + 10)
         ELSE IF WordAt(s, i + 4) THEN WordEnd(s, i + 4)
         ELSE 0
    ELSE 0

\* /\b(\w+) (above|below)\b/ : end (exclusive) of a match at i, or 0
MatchPosition(s, i) ==
    IF Boundary(s, i) /\ WordAt(s, i)
    THEN LET position(e) ==
                 IF (LitAt(s, e, " above") \/ LitAt(s, e, " below")) /\ Boundary(s, e + 6)
                 THEN e + 6 ELSE 0
         IN position(WordEnd(s, i))
    ELSE 0

\* pattern 1 and 2 are words, 3 is "the X", 4 is "X above/below"
MatchPattern(s, i, n) ==
    CASE n = 1 -> MatchWord(s, i, "this")
      [] n = 2 -> MatchWord(s, i, "that")
      [] n = 3 -> MatchThe(s, i)
      [] n = 4 -> MatchPosition(s, i)

\* text.match(pattern) with the g flag: the leftmost match at or after i, then
\* the matches after its end
RECURSIVE MatchAll(_, _, _)
MatchAll(s, i, n) ==
    LET take(j, e) == <<SubSeq(s, j, e - 1)>> \o MatchAll(s, e, n)
        leftmost(j) == take(j, MatchPattern(s, j, n))
        next(starts) == IF starts = {} THEN <<>>
                        ELSE leftmost(CHOOSE j \in starts : \A k \in starts : j <= k)
    IN next({j \in i..Len(s) : MatchPattern(s, j, n) > 0})

\* the matches of patterns n..4, pattern after pattern
RECURSIVE MatchFrom(_, _)
MatchFrom(text, n) ==
    IF n > 4 THEN <<>> ELSE MatchAll(text, 1, n) \o MatchFrom(text, n + 1)

ExtractAll(text) == Dedupe(MatchFrom(text, 1))

ExtractTable == [t \in Inputs \cup FormTexts |-> ExtractAll(t)]

extractReferences(text) ==
    IF text \in DOMAIN ExtractTable THEN ExtractTable[text] ELSE ExtractAll(text)

\* ref.toLowerCase().replace(/^(the |above |below )/i, "").trim()
CleanRef(ref) ==
    LET strip(l) == IF StartsWith(l, "the ") THEN SubSeq(l, 5, Len(l))
                    ELSE IF StartsWith(l, "above ") \/ StartsWith(l, "below ")
                         THEN SubSeq(l, 7, Len(l))
                    ELSE l
    IN Trim(strip(ToLowerCase(ref)))

-----------------------------------------------------------------------------
(* UIStateEngine: the reducer.  The tree is the sequence of its components *)
(* in the key order of the JavaScript object (insertion order).            *)

\* c[k], undefined when the descriptor has no such key
Field(c, k) == IF k \in DOMAIN c THEN c[k] ELSE None

\* position of id in the tree, 0 when absent (state[id] is undefined)
IndexOf(st, id) == IF \E i \in 1..Len(st) : st[i].id = id
                   THEN CHOOSE i \in 1..Len(st) : st[i].id = id
                   ELSE 0

Has(st, id) == IndexOf(st, id) > 0

Component(st, id) == st[IndexOf(st, id)]

\* delete result.state[id]
Without(st, id) == SelectSeq(st, LAMBDA c : c.id # id)

\* The tree is a plain object, so state[id] also finds the members every object
\* inherits from Object.prototype; these are the function-valued ones.
PrototypeKeys ==
    {"constructor", "hasOwnProperty", "isPrototypeOf", "propertyIsEnumerable",
     "toLocaleString", "toString", "valueOf"}

\* state[id] is truthy: an own component, or an inherited function
Defined(st, id) == Has(st, id) \/ id \in PrototypeKeys

\* { ...state[id] }: the fields of the own component; an inherited function has
\* no own enumerable field (the id of an entry of the model is its key)
Spread(st, id) == IF Has(st, id) THEN Component(st, id) ELSE [id |-> id]

\* the key is an array index: the canonical decimal numeral of an integer
\* (below 2^32 - 1, which the ids of the model all are)
IsIndex(id) == AllDigits(id) /\ (Len(id) = 1 \/ SubSeq(id, 1, 1) # "0")

\* a new own key of the tree: an object enumerates its index keys first, in
\* ascending numeric order, and its other keys after them in insertion order
NewKey(st, c) ==
    IF IsIndex(c.id)
    THEN SelectSeq(st, LAMBDA x : IsIndex(x.id) /\ DigitsValue(x.id) < DigitsValue(c.id))
         \o <<c>>
         \o SelectSeq(st, LAMBDA x : ~(IsIndex(x.id) /\ DigitsValue(x.id) < DigitsValue(c.id)))
    ELSE Append(st, c)

\* result.state[id] = c: in place for an own key, else a new key
Put(st, id, c) == IF Has(st, id) THEN [st EXCEPT ![IndexOf(st, id)] = c] ELSE NewKey(st, c)

\* { ...c.props }
PropsOf(c) == IF "props" \in DOMAIN c THEN c.props ELSE [k \in {} |-> <<>>]

EmptyDiff(st, no) ==
    [state |-> st, added |-> <<>>, removed |-> <<>>, updated |-> <<>>,
     visibilityChanged |-> <<>>, nextOrder |-> no]

\* render with its two spreads exchanged: the existing fields win
ReduceRender_existingWins(st, component, no) ==
    IF Defined(st, component.id)
    THEN LET merge(existing) == [Merge(component, existing) EXCEPT !.id = existing.id]
         IN [EmptyDiff(Put(st, component.id, merge(Spread(st, component.id))), no)
                EXCEPT !.updated = <<component.id>>]
    ELSE LET newComponent ==
                 Merge(component,
                       [visible |-> Some(OrElse(Field(component, "visible"), TRUE)),
                        order |-> Some(OrElse(Field(component, "order"), no))])
             no2 == IF Field(component, "order") = None THEN no + 1 ELSE no
         IN [EmptyDiff(NewKey(st, newComponent), no2) EXCEPT !.added = <<component.id>>]

ReduceRender(st, component, no) ==
    IF Defined(st, component.id)
    THEN LET merge(existing) == [Merge(existing, component) EXCEPT !.id = existing.id]
         IN [EmptyDiff(Put(st, component.id, merge(Spread(st, component.id))), no)
                EXCEPT !.updated = <<component.id>>]
    ELSE LET newComponent ==
                 Merge(component,
                       [visible |-> Some(OrElse(Field(component, "visible"), TRUE)),
                        order |-> Some(OrElse(Field(component, "order"), no))])
             no2 == IF Field(component, "order") = None THEN no + 1 ELSE no
         IN [EmptyDiff(NewKey(st, newComponent), no2) EXCEPT !.added = <<component.id>>]

ReduceRemove(st, id, no) ==
    IF Defined(st, id)
    THEN [EmptyDiff(Without(st, id), no) EXCEPT !.removed = <<id>>]
    ELSE EmptyDiff(st, no)

\* update that replaces the props by the given ones
ReduceUpdate_replacesProps(st, id, props, no) ==
    IF Defined(st, id)
    THEN [EmptyDiff(Put(st, id, Merge(Spread(st, id), [props |-> props])), no)
             EXCEPT !.updated = <<id>>]
    ELSE EmptyDiff(st, no)

ReduceUpdate(st, id, props, no) ==
    IF Defined(st, id)
    THEN LET next(existing) == Merge(existing, [props |-> Merge(PropsOf(existing), props)])
         IN [EmptyDiff(Put(st, id, next(Spread(st, id))), no) EXCEPT !.updated = <<id>>]
    ELSE EmptyDiff(st, no)

ReduceVisible(st, id, show, no) ==
    IF Defined(st, id) /\ Truthy(Field(Spread(st, id), "visible")) # show
    THEN [EmptyDiff(Put(st, id, Merge(Spread(st, id), [visible |-> Some(show)])), no)
             EXCEPT !.visibilityChanged = <<id>>]
    ELSE EmptyDiff(st, no)

ReduceSetOrder(st, id, order, no) ==
    IF Defined(st, id)
    THEN [EmptyDiff(Put(st, id, Merge(Spread(st, id), [order |-> Some(order)])), no)
             EXCEPT !.updated = <<id>>]
    ELSE EmptyDiff(st, no)

RECURSIVE reduce(_, _, _)
RECURSIVE ReduceBatch(_, _, _)

\* the loop over action.actions when each sub-diff replaces the lists collected
\* so far
RECURSIVE ReduceBatch_lastDiff(_, _, _)
ReduceBatch_lastDiff(acc, actions, i) ==
    IF i > Len(actions) THEN acc
    ELSE ReduceBatch_lastDiff(reduce(acc.state, actions[i], acc.nextOrder), actions, i + 1)

\* the loop over action.actions: the sub-diffs are concatenated
ReduceBatch(acc, actions, i) ==
    IF i > Len(actions) THEN acc
    ELSE LET sub == reduce(acc.state, actions[i], acc.nextOrder)
         IN ReduceBatch([state |-> sub.state,
                         added |-> acc.added \o sub.added,
                         removed |-> acc.removed \o sub.removed,
                         updated |-> acc.updated \o sub.updated,
                         visibilityChanged |-> acc.visibilityChanged \o sub.visibilityChanged,
                         nextOrder |-> sub.nextOrder],
                        actions, i + 1)

reduce(st, action, no) ==
    CASE action.type = "batch" -> ReduceBatch(EmptyDiff(st, no), action.actions, 1)
      [] action.type = "render" -> ReduceRender(st, action.component, no)
      [] action.type = "remove" -> ReduceRemove(st, action.id, no)
      [] action.type = "update" -> ReduceUpdate(st, action.id, action.props, no)
      [] action.type = "show" -> ReduceVisible(st, action.id, TRUE, no)
      [] action.type = "hide" -> ReduceVisible(st, action.id, FALSE, no)
      [] action.type = "setOrder" -> ReduceSetOrder(st, action.id, action.order, no)

\* the listeners whose call throws
Throwing == {"l2"}

\* notify without its try/catch: the first listener that throws ends the walk
RECURSIVE notify_uncaught(_)
notify_uncaught(ls) ==
    IF ls = <<>> THEN <<>>
    ELSE IF Head(ls) \in Throwing THEN <<Head(ls)>>
    ELSE <<Head(ls)>> \o notify_uncaught(Tail(ls))

\* UIStateEngine.notify: the listeners called, in the order of the set (its
\* insertion order); what a listener throws is caught and the walk goes on
RECURSIVE notify(_)
notify(ls) ==
    IF ls = <<>> THEN <<>>
    ELSE <<Head(ls)>> \o notify(Tail(ls))

\* what the listeners are called with, and what the engine and the reference
\* memory hold at that moment
Notification(result, ver, mem, ls) ==
    [added |-> result.added, removed |-> result.removed, updated |-> result.updated,
     visibilityChanged |-> result.visibilityChanged, state |-> result.state,
     version |-> ver, intents |-> mem.intents, references |-> mem.references,
     to |-> notify(ls)]

\* dispatch without its version++
dispatch_unversioned(e, action, mem, ls) ==
    LET apply(result) ==
            [state |-> result.state,
             nextOrder |-> result.nextOrder,
             version |-> e.version,
             notified |-> Append(e.notified, Notification(result, e.version, mem, ls))]
    IN apply(reduce(e.state, action, e.nextOrder))

\* UIStateEngine.dispatch on the engine e = [state, nextOrder, version, notified]
dispatch(e, action, mem, ls) ==
    LET apply(result) ==
            [state |-> result.state,
             nextOrder |-> result.nextOrder,
             version |-> e.version + 1,
             notified |-> Append(e.notified, Notification(result, e.version + 1, mem, ls))]
    IN apply(reduce(e.state, action, e.nextOrder))

\* UIStateEngine.dispatchAll
dispatchAll(e, actions, mem, ls) == dispatch(e, [type |-> "batch", actions |-> actions], mem, ls)

\* reset that reports nothing as removed
reset_silent(e, mem, ls) ==
    [e EXCEPT !.state = <<>>,
              !.version = e.version + 1,
              !.notified = Append(e.notified,
                               Notification(EmptyDiff(<<>>, e.nextOrder), e.version + 1, mem, ls))]

\* UIStateEngine.reset
reset(e, mem, ls) ==
    [e EXCEPT !.state = <<>>,
              !.version = e.version + 1,
              !.notified = Append(e.notified,
                               Notification([EmptyDiff(<<>>, e.nextOrder)
                                                EXCEPT !.removed = Ids(e.state)],
                                            e.version + 1, mem, ls))]

\* dispatching the actions of a list one after another
RECURSIVE DispatchEach(_, _, _, _)
DispatchEach(e, actions, mem, ls) ==
    IF actions = <<>> THEN e
    ELSE DispatchEach(dispatch(e, Head(actions), mem, ls), Tail(actions), mem, ls)

getVisibleState(st) == SelectSeq(st, LAMBDA c : Truthy(Field(c, "visible")))

-----------------------------------------------------------------------------
(* data-store: the hybrid fact store *)

Num(n) == [num |-> n]
Str(x) == [str |-> x]
Obj(x) == [obj |-> x]
\* a quotient that need not be an integer, kept as <<numerator, denominator>>
Ratio(n, d) == [ratio |-> <<n, d>>]
Null == [null |-> TRUE]

\* typeof v === "number"
IsNumber(v) == DOMAIN v \in {{"num"}, {"ratio"}}
IsString(v) == DOMAIN v = {"str"}

MOCK_DATA ==
    [k \in {"salary.lastMonth", "salary.currentMonth", "salary.previousMonth",
            "income.baseSalary", "income.bonuses", "income.overtime", "income.other",
            "expenses.rent", "expenses.utilities", "expenses.groceries",
            "expenses.transport", "expenses.entertainment", "expenses.savings",
            "expenses.other", "budget.total", "budget.remaining", "budget.spent",
            "accounts.checking", "accounts.savings", "accounts.investments",
            "accounts.retirement", "debt.creditCard", "debt.studentLoan",
            "debt.carLoan", "debt.mortgage", "goals.emergencyFund", "goals.vacation",
            "goals.newCar", "time.currentMonth", "time.lastMonth"} |->
        CASE k = "salary.lastMonth" -> Num(5000)
          [] k = "salary.currentMonth" -> Num(5500)
          [] k = "salary.previousMonth" -> Num(4800)
          [] k = "income.baseSalary" -> Num(4500)
          [] k = "income.bonuses" -> Num(500)
          [] k = "income.overtime" -> Num(500)
          [] k = "income.other" -> Num(0)
          [] k = "expenses.rent" -> Num(1500)
          [] k = "expenses.utilities" -> Num(200)
          [] k = "expenses.groceries" -> Num(400)
          [] k = "expenses.transport" -> Num(150)
          [] k = "expenses.entertainment" -> Num(200)
          [] k = "expenses.savings" -> Num(1000)
          [] k = "expenses.other" -> Num(300)
          [] k = "budget.total" -> Num(5000)
          [] k = "budget.remaining" -> Num(750)
          [] k = "budget.spent" -> Num(4250)
          [] k = "accounts.checking" -> Num(2500)
          [] k = "accounts.savings" -> Num(15000)
          [] k = "accounts.investments" -> Num(35000)
          [] k = "accounts.retirement" -> Num(25000)
          [] k = "debt.creditCard" -> Num(800)
          [] k = "debt.studentLoan" -> Num(12000)
          [] k = "debt.carLoan" -> Num(8000)
          [] k = "debt.mortgage" -> Num(180000)
          [] k = "goals.emergencyFund" -> Obj("target 15000 current 12000")
          [] k = "goals.vacation" -> Obj("target 3000 current 800")
          [] k = "goals.newCar" -> Obj("target 20000 current 5000")
          [] k = "time.currentMonth" -> Str("current month")
          [] k = "time.lastMonth" -> Str("last month")]

USER_REQUIRED_FIELDS ==
    {"salary.lastMonth", "salary.currentMonth", "salary.previousMonth",
     "user.firstName", "user.lastName", "user.email", "user.phone"}

ComputableKeys ==
    {"salary.change", "salary.changePercent", "salary.trend", "expenses.total",
     "income.total", "accounts.netWorth"}

initializeMockData_unfiltered(d) ==
    Merge(d, [k \in DOMAIN MOCK_DATA |-> [value |-> MOCK_DATA[k], source |-> "mock"]])

\* DataStore.initializeMockData on an empty map
initializeMockData(d) ==
    Merge(d, [k \in (DOMAIN MOCK_DATA) \ USER_REQUIRED_FIELDS |->
                 [value |-> MOCK_DATA[k], source |-> "mock"]])

EmptyMap == [k \in {} |-> Null]

RECURSIVE get(_, _)

\* this.getNumber(key): the value when it is a number, else null
getNumber(d, key) ==
    LET number(v) == IF IsNumber(v) THEN v ELSE Null IN number(get(d, key))

\* store.getNumber(key) ?? 0 for a plain number
NumberOr0(d, key) ==
    LET orZero(v) == IF "num" \in DOMAIN v THEN v.num ELSE 0 IN orZero(getNumber(d, key))

COMPUTABLE_FIELDS(d, key) ==
    CASE key = "salary.change" ->
            LET change(current, last) ==
                    IF current # Null /\ last # Null THEN Num(current.num - last.num) ELSE Null
            IN change(getNumber(d, "salary.currentMonth"), getNumber(d, "salary.lastMonth"))
      [] key = "salary.changePercent" ->
            LET percent(current, last) ==
                    IF current # Null /\ last # Null /\ last # Num(0)
                    THEN Ratio((current.num - last.num) * 100, last.num) ELSE Null
            IN percent(getNumber(d, "salary.currentMonth"), getNumber(d, "salary.lastMonth"))
      [] key = "salary.trend" ->
            LET trend(change) ==
                    IF change # Null THEN (IF change.num >= 0 THEN Str("up") ELSE Str("down"))
                    ELSE Str("neutral")
            IN trend(getNumber(d, "salary.change"))
      [] key = "expenses.total" ->
            Num(NumberOr0(d, "expenses.rent") + NumberOr0(d, "expenses.utilities")
                + NumberOr0(d, "expenses.groceries") + NumberOr0(d, "expenses.transport")
                + NumberOr0(d, "expenses.entertainment") + NumberOr0(d, "expenses.savings")
                + NumberOr0(d, "expenses.other"))
      [] key = "income.total" ->
            Num(NumberOr0(d, "income.baseSalary") + NumberOr0(d, "income.bonuses")
                + NumberOr0(d, "income.overtime") + NumberOr0(d, "income.other"))
      [] key = "accounts.netWorth" ->
            Num((NumberOr0(d, "accounts.checking") + NumberOr0(d, "accounts.savings")
                 + NumberOr0(d, "accounts.investments") + NumberOr0(d, "accounts.retirement"))
                - (NumberOr0(d, "debt.creditCard") + NumberOr0(d, "debt.studentLoan")
                   + NumberOr0(d, "debt.carLoan") + NumberOr0(d, "debt.mortgage")))

\* COMPUTABLE_FIELDS[key](store) for a key the table inherits from
\* Object.prototype: the inherited method, called on the table
Inherited(key) ==
    CASE key \in {"toString", "toLocaleString"} -> Str("[object Object]")
      [] key \in {"hasOwnProperty", "isPrototypeOf", "propertyIsEnumerable"} ->
            [bool |-> FALSE]
      [] key = "valueOf" -> Obj("COMPUTABLE_FIELDS")
      [] key = "constructor" -> Obj("DataStore")

\* get that prefers the entry stored under the key to the derivation
get_stored(d, key) ==
    IF key \in DOMAIN d THEN d[key].value
    ELSE IF key \in ComputableKeys THEN COMPUTABLE_FIELDS(d, key)
    ELSE IF key \in PrototypeKeys THEN Inherited(key)
    ELSE Null

get(d, key) ==
    IF key \in ComputableKeys THEN COMPUTABLE_FIELDS(d, key)
    ELSE IF key \in PrototypeKeys THEN Inherited(key)
    ELSE IF key \in DOMAIN d THEN d[key].value
    ELSE Null

has(d, key) == key \in DOMAIN d \/ key \in ComputableKeys \/ key \in PrototypeKeys

exists(d, key) == has(d, key) /\ get(d, key) # Null

withSource(d, key) ==
    IF key \in ComputableKeys
    THEN [value |-> COMPUTABLE_FIELDS(d, key), source |-> "computed"]
    ELSE IF key \in PrototypeKeys THEN [value |-> Inherited(key), source |-> "computed"]
    ELSE IF key \in DOMAIN d THEN d[key] ELSE Null

hasSalaryData(d) ==
    getNumber(d, "salary.lastMonth") # Null /\ getNumber(d, "salary.currentMonth") # Null

\* DataStore.set on the store ds = [data, userProvidedKeys]
set(ds, key, value) ==
    [data |-> Merge(ds.data, [k \in {key} |-> [value |-> value, source |-> "user"]]),
     userProvidedKeys |-> ds.userProvidedKeys \cup {key}]

\* DataStore.clear
clear(ds) == [data |-> initializeMockData(EmptyMap), userProvidedKeys |-> {}]

isUserProvided(ds, key) == key \in ds.userProvidedKeys

\* DataStore.setMany on the entries <<key, value>> in the order of Object.entries
RECURSIVE setMany(_, _)
setMany(ds, entries) ==
    IF entries = <<>> THEN ds
    ELSE setMany(set(ds, Head(entries)[1], Head(entries)[2]), Tail(entries))

\* DataStore.delete
delete(ds, key) ==
    [data |-> [k \in (DOMAIN ds.data) \ {key} |-> ds.data[k]],
     userProvidedKeys |-> ds.userProvidedKeys \ {key}]

\* DataStore.import on the entries <<key, entry>> in the order of Object.entries
RECURSIVE import(_, _)
import(ds, entries) ==
    IF entries = <<>> THEN ds
    ELSE import([data |-> Merge(ds.data, [k \in {Head(entries)[1]} |-> Head(entries)[2]]),
                 userProvidedKeys |->
                     IF Head(entries)[2].source = "user"
                     THEN ds.userProvidedKeys \cup {Head(entries)[1]}
                     ELSE ds.userProvidedKeys],
                Tail(entries))

\* MOCK_DATA[key] !== undefined && !USER_REQUIRED_FIELDS.has(key): the table is
\* a plain object, so the members it inherits from Object.prototype are defined
Resettable(key) ==
    (key \in DOMAIN MOCK_DATA \/ key \in PrototypeKeys) /\ key \notin USER_REQUIRED_FIELDS

\* MOCK_DATA[key]: the sample value, or the inherited method
MockValue(key) ==
    IF key \in DOMAIN MOCK_DATA THEN MOCK_DATA[key] ELSE Obj("Object.prototype." \o key)

\* DataStore.resetToMock: the store after it
resetToMock(ds, key) ==
    IF Resettable(key)
    THEN [data |-> Merge(ds.data, [k \in {key} |-> [value |-> MockValue(key), source |-> "mock"]]),
          userProvidedKeys |-> ds.userProvidedKeys \ {key}]
    ELSE ds

\* the own keys of COMPONENT_DATA_ACCESS with their lists
COMPONENT_DATA_ACCESS ==
    [t \in {"SummaryCards", "ChartView", "InsightSummary", "EmptyState", "InputForm",
            "DateRangePicker", "ExportActions", "PredictiveActionBar", "GuardrailModal"} |->
        CASE t = "SummaryCards" ->
                <<"salary.lastMonth", "salary.currentMonth", "salary.change",
                  "salary.changePercent", "salary.trend", "expenses.total", "income.total",
                  "accounts.netWorth">>
          [] t = "ChartView" ->
                <<"salary.lastMonth", "salary.currentMonth", "income.total", "expenses.total">>
          [] t = "InsightSummary" ->
                <<"salary.change", "salary.changePercent", "budget.remaining",
                  "goals.emergencyFund", "goals.vacation">>
          [] t = "DateRangePicker" -> <<"time.currentMonth", "time.lastMonth">>
          [] OTHER -> <<>>]

\* DataStore.forComponent: [result |-> the key -> value map returned], or
\* [throws |-> the error] when COMPONENT_DATA_ACCESS[componentType] is a member
\* inherited from Object.prototype, which for...of cannot iterate
forComponent(d, componentType) ==
    LET collect(allowedKeys) ==
            [k \in {allowedKeys[i] : i \in {j \in 1..Len(allowedKeys) :
                                                get(d, allowedKeys[j]) # Null}} |-> get(d, k)]
    IN IF componentType \in DOMAIN COMPONENT_DATA_ACCESS
       THEN [result |-> collect(COMPONENT_DATA_ACCESS[componentType])]
       ELSE IF componentType \in PrototypeKeys
       THEN [throws |-> "TypeError: allowedKeys is not iterable"]
       ELSE [result |-> collect(<<>>)]

getSourceSummary(d) ==
    [mock |-> Cardinality({k \in DOMAIN d : d[k].source = "mock"}),
     user |-> Cardinality({k \in DOMAIN d : d[k].source = "user"}),
     computed |-> Cardinality(ComputableKeys)]

Abs(n) == IF n < 0 THEN -n ELSE n

\* Number(s) for a string: <<n>>, or <<>> for NaN.  Blank strings are 0; decimal
\* integers with an optional sign are parsed; every other string used here is NaN.
NumberOf(s) ==
    LET t == Trim(s)
    IN IF t = "" THEN <<0>>
       ELSE IF AllDigits(t) THEN <<DigitsValue(t)>>
       ELSE IF StartsWith(t, "-") /\ AllDigits(SubSeq(t, 2, Len(t)))
            THEN <<0 - DigitsValue(SubSeq(t, 2, Len(t)))>>
       ELSE IF StartsWith(t, "+") /\ AllDigits(SubSeq(t, 2, Len(t)))
            THEN <<DigitsValue(SubSeq(t, 2, Len(t)))>>
       ELSE <<>>

\* `${v}` for a fact value
Show(v) ==
    CASE "num" \in DOMAIN v -> ToString(v.num)
      [] "str" \in DOMAIN v -> v.str
      [] "obj" \in DOMAIN v -> "[object Object]"
      [] OTHER -> "null"

\* (n / d).toFixed(1)
ToFixed1(n, d) ==
    LET tenths == (2 * 10 * Abs(n) + Abs(d)) \div (2 * Abs(d))
        sign == IF n # 0 /\ ((n < 0) # (d < 0)) THEN "-" ELSE ""
    IN sign \o ToString(tenths \div 10) \o "." \o ToString(tenths % 10)

\* processFormData: one set per entry, numeric strings converted to numbers
RECURSIVE processFormData(_, _)
processFormData(ds, formData) ==
    IF formData = <<>> THEN ds
    ELSE LET key == Head(formData)[1]
             value == Head(formData)[2]
             finalValue == IF IsString(value) /\ NumberOf(value.str) # <<>>
                           THEN Num(NumberOf(value.str)[1]) ELSE value
         IN processFormData(set(ds, key, finalValue), Tail(formData))

\* the mapping with the two salary fields exchanged
mapFormFieldToDataKey_swapped(fieldName) ==
    CASE fieldName = "lastMonthSalary" -> "salary.currentMonth"
      [] fieldName = "currentMonthSalary" -> "salary.lastMonth"
      [] OTHER -> fieldName

mapFormFieldToDataKey(fieldName) ==
    CASE fieldName = "lastMonthSalary" -> "salary.lastMonth"
      [] fieldName = "currentMonthSalary" -> "salary.currentMonth"
      [] fieldName = "previousMonthSalary" -> "salary.previousMonth"
      [] fieldName = "baseSalary" -> "income.baseSalary"
      [] fieldName = "monthlyRent" -> "expenses.rent"
      [] fieldName = "monthlyUtilities" -> "expenses.utilities"
      [] fieldName = "monthlyGroceries" -> "expenses.groceries"
      [] fieldName = "checkingAccount" -> "accounts.checking"
      [] fieldName = "savingsAccount" -> "accounts.savings"
      [] fieldName = "totalExpenses" -> "expenses.total"
      [] fieldName = "category" -> "expenses.category"
      [] OTHER -> fieldName

getSalaryComparisonData(d) ==
    LET comparison(lastMonth, currentMonth) ==
            [lastMonth |-> lastMonth,
             currentMonth |-> currentMonth,
             change |-> getNumber(d, "salary.change"),
             changePercent |-> getNumber(d, "salary.changePercent"),
             trend |-> get(d, "salary.trend").str,
             hasData |-> lastMonth # Null /\ currentMonth # Null]
    IN comparison(getNumber(d, "salary.lastMonth"), getNumber(d, "salary.currentMonth"))

getSalaryCardsData(d) ==
    LET orZero(v) == IF v = Null THEN 0 ELSE v.num
        fixed(v) == IF v = Null THEN "0" ELSE ToFixed1(v.ratio[1], v.ratio[2])
        difference(change) ==
            Str(IF change >= 0 THEN "+$" \o ToString(change) ELSE "-$" \o ToString(Abs(change)))
        cards(sd) ==
            IF ~sd.hasData THEN <<>>
            ELSE <<[title |-> "Last Month", value |-> Num(orZero(sd.lastMonth)),
                    trend |-> "neutral"],
                   [title |-> "Current Month", value |-> Num(orZero(sd.currentMonth)),
                    trend |-> "neutral"],
                   [title |-> "Difference", value |-> difference(orZero(sd.change)),
                    trend |-> sd.trend],
                   [title |-> "Change %", value |-> Str(fixed(sd.changePercent) \o "%"),
                    trend |-> sd.trend]>>
    IN cards(getSalaryComparisonData(d))

\* the test without its negation
needsSalaryData_unnegated(d) == hasSalaryData(d)

needsSalaryData(d) == ~hasSalaryData(d)

-----------------------------------------------------------------------------
(* intent-memory: IntentMemoryEngine on mem = [intents, references,        *)
(* currentIntentId]; references maps a key to [key, componentId, timestamp] *)

DefaultMaxIntents == 50
DefaultMaxAge == 3600000

\* the options of the singleton: new IntentMemoryEngine()
DefaultOptions == [maxIntents |-> DefaultMaxIntents, maxAge |-> DefaultMaxAge]

\* this.intents.slice(-n)
SliceLast(xs, n) == IF n = 0 \/ n >= Len(xs) THEN xs ELSE SubSeq(xs, Len(xs) - n + 1, Len(xs))

setReference(refs, key, componentId, timestamp) ==
    LET put(k) == Merge(refs, [x \in {k} |-> [key |-> k, componentId |-> componentId,
                                              timestamp |-> timestamp]])
    IN put(ToLowerCase(key))

cleanup(mem, t, options) ==
    LET trim(young) == IF Len(young) > options.maxIntents
                       THEN SliceLast(young, options.maxIntents) ELSE young
        fresh == {k \in DOMAIN mem.references :
                     ~(t - mem.references[k].timestamp > options.maxAge)}
    IN [mem EXCEPT !.intents = trim(SelectSeq(@, LAMBDA intent :
                                                    t - intent.timestamp < options.maxAge)),
                   !.references = [k \in fresh |-> @[k]]]

\* recordIntent at time t; id is the fresh intent id
recordIntent(mem, intent, t, id, options) ==
    LET newIntent == [id |-> id, timestamp |-> t, input |-> intent.input,
                      type |-> intent.type, componentIds |-> intent.componentIds]
        this(refs) ==
            IF Len(intent.componentIds) > 0
            THEN setReference(refs, "this", intent.componentIds[1], t) ELSE refs
        that(refs, pushed) ==
            IF Len(pushed) >= 2 /\ Len(pushed[Len(pushed) - 1].componentIds) > 0
            THEN setReference(refs, "that", pushed[Len(pushed) - 1].componentIds[1],
                              pushed[Len(pushed) - 1].timestamp)
            ELSE refs
        push(cleaned, pushed) ==
            [intents |-> pushed, references |-> that(this(cleaned.references), pushed),
             currentIntentId |-> Some(id)]
        record(cleaned) == push(cleaned, Append(cleaned.intents, newIntent))
    IN record(cleanup(mem, t, options))

\* resolveReference: <<id>> or <<>> for null
resolveReference(mem, key) ==
    LET \* this.intents.find(...)?.componentIds[0] ?? null over the matching intents
        head(ids) == IF Len(ids) > 0 THEN Some(ids[1]) ELSE None
        found(matching) ==
            IF matching = {} THEN None
            ELSE head(mem.intents[CHOOSE m \in matching :
                                      \A l \in matching : m <= l].componentIds)
        resolve(lowerKey) ==
            IF lowerKey \in DOMAIN mem.references
            THEN Some(mem.references[lowerKey].componentId)
            ELSE found({n \in 1..Len(mem.intents) :
                          \E i \in 1..Len(mem.intents[n].componentIds) :
                              Includes(ToLowerCase(mem.intents[n].componentIds[i]), lowerKey)})
    IN resolve(ToLowerCase(key))

\* JavaScript truthiness of a string-or-null
TruthyId(o) == o # None /\ o[1] # ""

\* the loop of resolveReferencesInText over the extracted references
RECURSIVE ResolveEach(_, _, _)
ResolveEach(mem, extracted, componentMap) ==
    IF extracted = <<>> THEN <<>>
    ELSE LET push(cleanRef, componentId, rest) ==
                 IF TruthyId(componentId) THEN <<componentId[1]>> \o rest
                 ELSE IF cleanRef \in DOMAIN componentMap
                 THEN <<componentMap[cleanRef]>> \o rest
                 ELSE rest
             look(cleanRef) ==
                 push(cleanRef, resolveReference(mem, cleanRef),
                      ResolveEach(mem, Tail(extracted), componentMap))
         IN look(CleanRef(Head(extracted)))

resolveReferencesInText(mem, text, componentMap) ==
    Dedupe(ResolveEach(mem, extractReferences(text), componentMap))

\* insertion of c into a sequence sorted by (order ?? 0), after its equals
RECURSIVE InsertByOrder(_, _)
InsertByOrder(sorted, c) ==
    IF sorted = <<>> THEN <<c>>
    ELSE IF OrElse(Field(sorted[Len(sorted)], "order"), 0) <= OrElse(Field(c, "order"), 0)
    THEN Append(sorted, c)
    ELSE Append(InsertByOrder(SubSeq(sorted, 1, Len(sorted) - 1), c), sorted[Len(sorted)])

\* [...components].sort((a, b) => (a.order ?? 0) - (b.order ?? 0)), a stable sort
RECURSIVE SortByOrder(_)
SortByOrder(components) ==
    IF components = <<>> THEN <<>>
    ELSE InsertByOrder(SortByOrder(SubSeq(components, 1, Len(components) - 1)),
                       components[Len(components)])

\* the first loop of indexComponents: a type reference for every component
RECURSIVE IndexTypes(_, _, _)
IndexTypes(mem, components, t) ==
    IF components = <<>> THEN mem
    ELSE LET comp == Head(components)
             refKey == ToLowerCase(comp.type)
             next == IF ~TruthyId(resolveReference(mem, refKey))
                     THEN [mem EXCEPT !.references = setReference(@, refKey, comp.id, t)]
                     ELSE mem
         IN IndexTypes(next, Tail(components), t)

indexComponents_skipped(mem, components, t) == mem

\* indexComponents (intent-memory) over the components of the tree
indexComponents(mem, components, t) ==
    LET position(refs, sortedComps) ==
            IF Len(sortedComps) > 0
            THEN setReference(setReference(refs, "first", sortedComps[1].id, t),
                              "last", sortedComps[Len(sortedComps)].id, t)
            ELSE refs
        index(typed) ==
            [typed EXCEPT !.references = position(@, SortByOrder(components))]
    IN index(IndexTypes(mem, components, t))

-----------------------------------------------------------------------------
(* predictive-actions: the suggestion engine *)

MIN_CONFIDENCE == 5
MAX_SUGGESTIONS == 3

Suggestion(label, input, confidence, reason) ==
    [label |-> label, input |-> input, confidence |-> confidence, reason |-> reason]

emptyStateRule(context) ==
    IF \E i \in 1..Len(context.currentComponents) :
           context.currentComponents[i].id = "empty-state"
    THEN <<Suggestion("Compare Salary", "Show me salary comparison", 8,
                      "Most common starting point")>>
    ELSE <<>>

salaryComparisonRule(context) ==
    LET hasSalaryCards == \E i \in 1..Len(context.currentComponents) :
                              context.currentComponents[i].id = "salary-comparison-cards"
        hasChart == \E i \in 1..Len(context.currentComponents) :
                        context.currentComponents[i].id = "salary-comparison-chart"
    IN IF hasSalaryCards /\ hasChart
       THEN <<Suggestion("Export Report", "Export my salary comparison as PDF", 7,
                         "User just viewed salary data, may want to save it"),
              Suggestion("View Expenses", "Show me my expense breakdown", 6,
                         "Natural progression from income to expenses")>>
       ELSE <<>>

afterFormRule(context) ==
    IF Includes(context.lastAction, "salary-data-form")
       /\ Includes(context.lastAction, "salary-comparison-cards")
    THEN <<Suggestion("View Details", "Show more details about my finances", 6,
                      "User just entered data, may want deeper analysis")>>
    ELSE <<>>

expensesRule(context) ==
    LET expenseCards(c) ==
            "cards" \in DOMAIN c.props
            /\ \E j \in 1..Len(c.props.cards) :
                   Includes(ToLowerCase(c.props.cards[j].title), "expense")
        isExpenseContext == \E i \in 1..Len(context.currentComponents) :
                                expenseCards(context.currentComponents[i])
    IN IF isExpenseContext
       THEN <<Suggestion("View Income", "Show me my income breakdown", 7,
                         "Natural flow from expenses to income"),
              Suggestion("Calculate Savings Rate", "What is my savings rate?", 6,
                         "Common financial metric after viewing expenses")>>
       ELSE <<>>

chartRule(context) ==
    LET hasChart == \E i \in 1..Len(context.currentComponents) :
                        context.currentComponents[i].type = "ChartView"
    IN IF hasChart /\ Len(context.currentComponents) = 1
       THEN <<Suggestion("Add Summary Cards", "Show me summary metrics", 6,
                         "Charts are often better with summary numbers")>>
       ELSE <<>>

\* the rules in priority order, their outputs concatenated
PREDICTION_RULES(context) ==
    emptyStateRule(context) \o salaryComparisonRule(context) \o afterFormRule(context)
    \o expensesRule(context) \o chartRule(context)

\* insertion of x into a sequence sorted by descending confidence, after its equals
RECURSIVE InsertByConfidence(_, _)
InsertByConfidence(sorted, x) ==
    IF sorted = <<>> THEN <<x>>
    ELSE IF sorted[Len(sorted)].confidence >= x.confidence THEN Append(sorted, x)
    ELSE Append(InsertByConfidence(SubSeq(sorted, 1, Len(sorted) - 1), x),
                sorted[Len(sorted)])

\* xs.sort((a, b) => b.confidence - a.confidence), a stable sort
RECURSIVE SortByConfidence(_)
SortByConfidence(xs) ==
    IF xs = <<>> THEN <<>>
    ELSE InsertByConfidence(SortByConfidence(SubSeq(xs, 1, Len(xs) - 1)), xs[Len(xs)])

getPredictiveActions_unsorted(context) ==
    LET first(qualified) ==
            SubSeq(qualified, 1,
                   IF Len(qualified) < MAX_SUGGESTIONS THEN Len(qualified) ELSE MAX_SUGGESTIONS)
    IN first(SelectSeq(PREDICTION_RULES(context), LAMBDA x : x.confidence >= MIN_CONFIDENCE))

getPredictiveActions(context) ==
    LET allSuggestions == PREDICTION_RULES(context)
        qualified == SelectSeq(allSuggestions, LAMBDA x : x.confidence >= MIN_CONFIDENCE)
        sorted == SortByConfidence(qualified)
    IN SubSeq(sorted, 1, IF Len(sorted) < MAX_SUGGESTIONS THEN Len(sorted) ELSE MAX_SUGGESTIONS)

buildPredictionContext(components, lastActionNotes) ==
    [currentComponents |-> components,
     lastAction |-> lastActionNotes,
     hasSalaryData |-> \E i \in 1..Len(components) : Includes(components[i].id, "salary"),
     hasExpenseData |-> \E i \in 1..Len(components) : Includes(components[i].id, "expense"),
     hasChartData |-> \E i \in 1..Len(components) : components[i].type = "ChartView"]

shouldShowPredictions(predictions) ==
    Len(predictions) > 0 /\ \E i \in 1..Len(predictions) : predictions[i].confidence >= 6

-----------------------------------------------------------------------------
(* ui-orchestrator *)

\* a descriptor as simulateAIResponse writes it: visible true, order given
Descriptor(id, type, props, order) ==
    [id |-> id, type |-> type, visible |-> Some(TRUE), props |-> props, order |-> Some(order)]

HandlerNames ==
    {"onFormSubmit", "onModalConfirm", "onModalCancel", "onEmptyStateAction",
     "onPredictAction", "onDismissPredictions", "onToast"}

\* attachHandlers: a callback prop is the name of the registered handler it
\* calls, with the id it is bound to where the code binds one
attachHandlers(component, handlers) ==
    LET add(cond, name, value) == IF cond THEN [k \in {name} |-> value] ELSE EmptyMap
        t == component.type
        extra ==
            Merge(Merge(Merge(Merge(Merge(Merge(
                add(t = "InputForm" /\ "onFormSubmit" \in handlers,
                    "onSubmit", [fn |-> "onFormSubmit", bound |-> ""]),
                add(t = "GuardrailModal" /\ "onModalConfirm" \in handlers,
                    "onConfirm", [fn |-> "onModalConfirm", bound |-> component.id])),
                add(t = "GuardrailModal" /\ "onModalCancel" \in handlers,
                    "onCancel", [fn |-> "onModalCancel", bound |-> component.id])),
                add(t = "EmptyState" /\ "onEmptyStateAction" \in handlers,
                    "onAction", [fn |-> "onEmptyStateAction", bound |-> ""])),
                add(t = "PredictiveActionBar" /\ "onPredictAction" \in handlers,
                    "onActionClick", [fn |-> "onPredictAction", bound |-> ""])),
                add(t = "PredictiveActionBar" /\ "onDismissPredictions" \in handlers,
                    "onDismiss", [fn |-> "onDismissPredictions", bound |-> ""])),
                add(t = "ExportActions" /\ "onToast" \in handlers,
                    "onExport", [fn |-> "onToast", bound |-> ""]))
    IN [component EXCEPT !.props = Merge(component.props, extra)]

\* the type -> id map of resolveReferences: the first component of each type
ComponentMap(st) ==
    [t \in {st[i].type : i \in 1..Len(st)} |->
        st[CHOOSE i \in 1..Len(st) :
               st[i].type = t /\ \A j \in 1..(i - 1) : st[j].type # t].id]

\* resolveReferences: the input, annotated with the first resolved component
resolveReferences(userInput, st, mem) ==
    LET annotate(referencedComp) ==
            Annotate(userInput, referencedComp.type, referencedComp.id)
        refer(resolvedIds) ==
            IF Len(resolvedIds) > 0 /\ Has(st, resolvedIds[1])
            THEN annotate(Component(st, resolvedIds[1]))
            ELSE userInput
    IN refer(resolveReferencesInText(mem, userInput, ComponentMap(st)))

SalaryFormDescriptor(d) ==
    Descriptor("salary-data-form", "InputForm",
        [fields |-> <<[name |-> "lastMonthSalary", label |-> "Last Month Salary",
                       type |-> "number",
                       placeholder |-> "Enter your last month salary",
                       required |-> ~exists(d, "salary.lastMonth")],
                      [name |-> "currentMonthSalary", label |-> "Current Month Salary",
                       type |-> "number",
                       placeholder |-> "Enter your current month salary",
                       required |-> ~exists(d, "salary.currentMonth")]>>,
         submitLabel |-> "Compare Salary"], 0)

\* salaryData.x ?? 0
NumOr0(v) == IF v = Null THEN Num(0) ELSE v

SalaryCardsDescriptor(d) ==
    Descriptor("salary-comparison-cards", "SummaryCards",
               [cards |-> getSalaryCardsData(d)], 0)

SalaryChartDescriptor(d) ==
    LET salaryData == getSalaryComparisonData(d)
    IN Descriptor("salary-comparison-chart", "ChartView",
           [title |-> "Salary Comparison",
            data |-> <<NumOr0(salaryData.lastMonth), NumOr0(salaryData.currentMonth)>>,
            labels |-> <<"Last Month", "Current Month">>,
            type |-> "bar"], 1)

ExportDescriptors ==
    <<Descriptor("export-success", "InsightSummary",
          [insights |-> <<[title |-> "Report Ready",
                           description |-> "Salary comparison report has been prepared for export.",
                           type |-> "success"]>>], 0),
      Descriptor("export-actions", "ExportActions",
          [formats |-> <<[id |-> "pdf", label |-> "PDF"], [id |-> "csv", label |-> "CSV"]>>], 1)>>

ExpenseFormDescriptor ==
    Descriptor("expense-data-form", "InputForm",
        [title |-> "Expense Information",
         description |-> "Enter your expense details to see a breakdown",
         fields |-> <<[name |-> "totalExpenses", label |-> "Total Monthly Expenses",
                       type |-> "number", placeholder |-> "e.g., 35000", required |-> TRUE],
                      [name |-> "category", label |-> "Highest Category",
                       type |-> "text", placeholder |-> "e.g., Rent, Food, Transport",
                       required |-> TRUE]>>,
         submitLabel |-> "Analyze Expenses"], 0)

\* the rupee sign of the source is written Rs
ExpenseDescriptors(d) ==
    LET totalExpenses == IF get(d, "expenses.total") = Null THEN Num(0)
                         ELSE get(d, "expenses.total")
        category == IF get(d, "expenses.category") = Null THEN Str("Other")
                    ELSE get(d, "expenses.category")
    IN <<Descriptor("expense-summary", "SummaryCards",
             [cards |-> <<[title |-> "Total Expenses",
                           value |-> Str("Rs" \o Show(totalExpenses)), trend |-> "neutral"],
                          [title |-> "Top Category",
                           value |-> Str(Show(category)), trend |-> "neutral"]>>], 0),
         Descriptor("expense-breakdown", "InsightSummary",
             [insights |-> <<[title |-> "Expense Breakdown",
                              description |-> "Your highest spending category is "
                                  \o Show(category) \o " at Rs" \o Show(totalExpenses)
                                  \o ". Consider tracking individual categories for better insights.",
                              type |-> "info"]>>], 1)>>

ConfirmClearDescriptor ==
    Descriptor("confirm-clear", "GuardrailModal",
        [title |-> "Clear All Components",
         message |-> "This will remove all components from the screen. This action cannot be undone.",
         confirmLabel |-> "Clear All", cancelLabel |-> "Cancel"], 0)

ConfirmDataDeletionDescriptor(d) ==
    LET sourceSummary == getSourceSummary(d)
        message == "This action will permanently delete your data. "
                   \o (IF sourceSummary.user > 0
                       THEN "You have " \o ToString(sourceSummary.user)
                            \o " user-provided data entries that will be lost. "
                       ELSE "")
                   \o (IF sourceSummary.mock > 0
                       THEN "Mock data will remain available for new sessions. " ELSE "")
                   \o "This action cannot be undone."
    IN Descriptor("confirm-data-deletion", "GuardrailModal",
           [title |-> "Delete All Data?", message |-> message,
            confirmLabel |-> "Delete Everything", cancelLabel |-> "Keep My Data"], 0)

EmptyStateDescriptor(title, description, actionLabel) ==
    Descriptor("empty-state", "EmptyState",
        [title |-> title, description |-> description, actionLabel |-> actionLabel], 0)

destructivePatterns ==
    <<"delete all", "delete my data", "delete everything", "erase all", "erase everything",
      "erase my data", "remove all data", "remove my data", "remove everything",
      "destroy all", "destroy my data", "wipe all", "wipe everything", "wipe my data",
      "clear all data", "clear my data", "reset everything", "reset all data",
      "forget everything", "forget my data">>

\* the substrings simulateAIResponse looks for
PolicyKeywords ==
    {"salary", "comparison", "compare", "last month", "current month", "form submitted",
     "export", "report", "pdf", "expense", "expenses", "clear", "reset", "remove all",
     "confirmed", "confirm clear"} \cup Range(destructivePatterns)

\* for every known text, the keywords its lower-case form includes
KeywordTable ==
    [t \in KnownTexts |->
        LET keywords(lowerInput) == {p \in PolicyKeywords : Includes(lowerInput, p)}
        IN keywords(ToLowerFrom(t, 1))]

Response(render, remove, notes) ==
    [render |-> render, remove |-> remove, update |-> <<>>, notes |-> notes]

\* simulateAIResponse on the (annotated) input, the fact store and the tree
simulateAIResponse(userInput, d, st) ==
    LET lowerInput == ToLowerCase(userInput)
        inc(p) == IF userInput \in DOMAIN KeywordTable /\ p \in PolicyKeywords
                  THEN p \in KeywordTable[userInput]
                  ELSE Includes(lowerInput, p)
        isDestructiveRequest ==
            \E i \in 1..Len(destructivePatterns) : inc(destructivePatterns[i])
    IN IF inc("salary") /\ (inc("comparison") \/ inc("compare")
                             \/ (inc("last month") /\ inc("current month")))
       THEN IF needsSalaryData(d)
            THEN Response(<<SalaryFormDescriptor(d)>>, <<>>,
                          "Collecting missing salary data for comparison")
            ELSE Response(<<SalaryCardsDescriptor(d), SalaryChartDescriptor(d)>>,
                          <<"empty-state", "salary-data-form">>,
                          "Displayed salary comparison with available data")
       ELSE IF inc("form submitted") /\ hasSalaryData(d)
       THEN Response(<<SalaryCardsDescriptor(d), SalaryChartDescriptor(d)>>,
                     <<"salary-data-form">>,
                     "Processed salary data and displayed comparison")
       ELSE IF inc("export") /\ (inc("report") \/ inc("pdf") \/ inc("salary"))
       THEN Response(ExportDescriptors, <<>>,
                     "Export options displayed for salary comparison")
       ELSE IF inc("expense") \/ inc("expenses")
       THEN IF ~exists(d, "expenses.total")
            THEN Response(<<ExpenseFormDescriptor>>, <<>>,
                          "Collecting expense data for breakdown")
            ELSE Response(ExpenseDescriptors(d), <<"expense-data-form">>,
                          "Displayed expense breakdown")
       ELSE IF inc("clear") \/ inc("reset") \/ inc("remove all")
       THEN Response(<<ConfirmClearDescriptor>>, <<>>,
                     "Awaiting confirmation for destructive action")
       ELSE IF isDestructiveRequest
       THEN Response(<<ConfirmDataDeletionDescriptor(d)>>, <<>>,
                     "Awaiting confirmation for data deletion")
       ELSE IF inc("confirmed") \/ inc("confirm clear")
       THEN Response(<<EmptyStateDescriptor("Screen Cleared",
                                            "All components have been removed.",
                                            "Start Over")>>,
                     Ids(st) \o <<"confirm-clear">>,
                     "Cleared all components after confirmation")
       ELSE Response(<<EmptyStateDescriptor("What would you like to see?",
                         "Try asking for a salary comparison, chart, or summary.",
                         "Get Started")>>,
                     <<>>, "Displayed empty state for new user")

PredictiveActionDescriptor(predictions) ==
    Descriptor("predictive-actions", "PredictiveActionBar",
        [actions |-> [i \in 1..Len(predictions) |->
                         [label |-> predictions[i].label, input |-> predictions[i].input,
                          confidence |-> predictions[i].confidence]]], 999)

\* the world an orchestrator call works on
World ==
    [engine |-> [state |-> state, nextOrder |-> nextOrder, version |-> version,
                 notified |-> <<>>],
     mem |-> [intents |-> intents, references |-> references,
              currentIntentId |-> currentIntentId],
     store |-> [data |-> data, userProvidedKeys |-> userProvidedKeys],
     intentSeq |-> intentSeq,
     actions |-> [render |-> <<>>, remove |-> <<>>, update |-> <<>>]]

ExecutionOrder_renderFirst(removes, updates, renders) == renders \o updates \o removes

\* the order of the three dispatch loops: removals, then updates, then renders
ExecutionOrder(removes, updates, renders) == removes \o updates \o renders

\* executeOrchestratorActions: the world after it, with the returned actions
executeOrchestratorActions(w, response, handlers, ls, t) ==
    LET removes == [i \in 1..Len(response.remove) |->
                       [type |-> "remove", id |-> response.remove[i]]]
        updates == [i \in 1..Len(response.update) |->
                       [type |-> "update", id |-> response.update[i].id,
                        props |-> response.update[i].props]]
        \* the intent is recorded and the tree re-indexed after the last dispatch
        record(e, affectedIds) ==
            indexComponents(
                recordIntent(w.mem,
                    [input |-> IF response.notes = "" THEN "User request processed"
                               ELSE response.notes,
                     type |-> "ui_orchestration", componentIds |-> affectedIds],
                    t, w.intentSeq + 1, DefaultOptions),
                e.state, t)
        finish(e, render) ==
            [w EXCEPT !.engine = e,
                      !.mem = record(e, response.remove \o Ids(response.update) \o Ids(render)),
                      !.intentSeq = w.intentSeq + 1,
                      !.actions = [render |-> render, remove |-> response.remove,
                                   update |-> response.update]]
        \* the predictive action bar is pushed to actions.render and dispatched
        add(e, render, predictiveAction) ==
            finish(dispatch(e, [type |-> "render", component |-> predictiveAction], w.mem, ls),
                   Append(render, predictiveAction))
        suggest(e, render, predictions) ==
            IF shouldShowPredictions(predictions)
            THEN add(e, render, PredictiveActionDescriptor(predictions))
            ELSE finish(e, render)
        predict(e, render) ==
            suggest(e, render,
                    getPredictiveActions(
                        buildPredictionContext(getVisibleState(e.state), response.notes)))
        execute(render) ==
            predict(DispatchEach(w.engine,
                        ExecutionOrder(removes, updates,
                            [i \in 1..Len(render) |->
                                [type |-> "render", component |-> render[i]]]),
                        w.mem, ls),
                    render)
    IN execute([i \in 1..Len(response.render) |-> attachHandlers(response.render[i], handlers)])

\* processUserInput: callAIOrchestrator never throws, so the catch branch is not taken
processUserInput(w, userInput, handlers, ls, t) ==
    IF userInput = "" \/ IsBlank(userInput) THEN w
    ELSE executeOrchestratorActions(w,
             simulateAIResponse(resolveReferences(userInput, w.engine.state, w.mem),
                                w.store.data, w.engine.state),
             handlers, ls, t)

\* mappedData of handleFormSubmission: the entries under their data keys; a key
\* written twice keeps its first position and takes the later value
RECURSIVE MapFormData(_, _)
MapFormData(mapped, formData) ==
    IF formData = <<>> THEN mapped
    ELSE LET dataKey == mapFormFieldToDataKey(Head(formData)[1])
             value == Head(formData)[2]
             next == IF \E i \in 1..Len(mapped) : mapped[i][1] = dataKey
                     THEN [i \in 1..Len(mapped) |->
                              IF mapped[i][1] = dataKey THEN <<dataKey, value>> ELSE mapped[i]]
                     ELSE Append(mapped, <<dataKey, value>>)
         IN MapFormData(next, Tail(formData))

\* Object.entries(mappedData).map(([k, v]) => `${k}: ${v}`).join(", ")
RECURSIVE FormContext(_)
FormContext(mapped) ==
    IF mapped = <<>> THEN ""
    ELSE mapped[1][1] \o ": " \o Show(mapped[1][2])
         \o (IF Len(mapped) > 1 THEN ", " ELSE "") \o FormContext(Tail(mapped))

handleFormSubmission(w, formData, handlers, ls, t) ==
    LET submit(mappedData) ==
            processUserInput([w EXCEPT !.store = processFormData(w.store, mappedData)],
                             "Form submitted with " \o FormContext(mappedData),
                             handlers, ls, t)
    IN submit(MapFormData(<<>>, formData))

confirmDestructiveAction(w, actionId, handlers, ls) ==
    LET screenCleared == EmptyStateDescriptor("Screen Cleared",
                             "All components have been removed.", "Start Over")
        dataDeleted == EmptyStateDescriptor("All Data Deleted",
                           "Your personal data has been removed. Mock data remains available for demonstration.",
                           "Start Over")
        first == actionId = "confirm-clear" \/ StartsWith(actionId, "confirm-")
        second == ~first /\ actionId = "confirm-data-deletion"
        store == IF second THEN clear(w.store) ELSE w.store
        remove == IF first \/ second THEN Ids(w.engine.state) ELSE <<>>
        render == IF first THEN <<attachHandlers(screenCleared, handlers)>>
                  ELSE IF second THEN <<attachHandlers(dataDeleted, handlers)>>
                  ELSE <<>>
        removes == [i \in 1..Len(remove) |-> [type |-> "remove", id |-> remove[i]]]
        renders == [i \in 1..Len(render) |-> [type |-> "render", component |-> render[i]]]
    IN [w EXCEPT !.store = store,
                 !.engine = DispatchEach(w.engine, removes \o renders, w.mem, ls),
                 !.actions = [render |-> render, remove |-> remove, update |-> <<>>]]

cancelDestructiveAction(w, actionId, ls) ==
    [w EXCEPT !.engine = dispatch(w.engine, [type |-> "remove", id |-> actionId], w.mem, ls),
              !.actions = [render |-> <<>>, remove |-> <<actionId>>, update |-> <<>>]]

-----------------------------------------------------------------------------
(* The state machine of a session of the mounted client: its handlers are   *)
(* registered and its hook is subscribed to the engine before the first     *)
(* submission.                                                              *)

\* forms a user submits: sequences of <<field name, value>>
Forms ==
    {<<<<"lastMonthSalary", Num(5000)>>, <<"currentMonthSalary", Num(5500)>>>>,
     <<<<"lastMonthSalary", Str("6000")>>, <<"currentMonthSalary", Str("5500")>>>>,
     <<<<"lastMonthSalary", Str("abc")>>>>}

\* ids a confirm or cancel callback is called with
ActionIds == {"confirm-clear", "confirm-data-deletion", "empty-state"}

Listeners == <<"l1">>

NoCall == [op |-> "none", input |-> "", formData |-> <<>>, actionId |-> ""]

Call(op, input, formData, actionId) ==
    [op |-> op, input |-> input, formData |-> formData, actionId |-> actionId]

Init ==
    /\ state = <<>>
    /\ nextOrder = 0
    /\ version = 0
    /\ listeners = Listeners
    /\ data = initializeMockData(EmptyMap)
    /\ userProvidedKeys = {}
    /\ intents = <<>>
    /\ references = EmptyMap
    /\ currentIntentId = None
    /\ handlerRegistry = HandlerNames
    /\ now = 0
    /\ intentSeq = 0
    /\ calls = 0
    /\ call = NoCall
    /\ batch = [render |-> <<>>, remove |-> <<>>, update |-> <<>>]
    /\ notified = <<>>
    /\ isProcessing = FALSE
    /\ inFlight = <<>>

\* the variables after a call that left the world w
Commit(w, c) ==
    /\ state' = w.engine.state
    /\ nextOrder' = w.engine.nextOrder
    /\ version' = w.engine.version
    /\ notified' = w.engine.notified
    /\ data' = w.store.data
    /\ userProvidedKeys' = w.store.userProvidedKeys
    /\ intents' = w.mem.intents
    /\ references' = w.mem.references
    /\ currentIntentId' = w.mem.currentIntentId
    /\ intentSeq' = w.intentSeq
    /\ batch' = w.actions
    /\ calls' = calls + 1
    /\ call' = c

ProcessUserInput(text) ==
    /\ calls < MaxCalls
    /\ Commit(processUserInput(World, text, handlerRegistry, listeners, now),
              Call("processUserInput", text, <<>>, ""))
    /\ UNCHANGED <<isProcessing, inFlight>>
    /\ UNCHANGED <<listeners, handlerRegistry, now>>

HandleFormSubmission(formData) ==
    /\ calls < MaxCalls
    /\ Commit(handleFormSubmission(World, formData, handlerRegistry, listeners, now),
              Call("handleFormSubmission", "", formData, ""))
    /\ UNCHANGED <<isProcessing, inFlight>>
    /\ UNCHANGED <<listeners, handlerRegistry, now>>

ConfirmDestructiveAction(actionId) ==
    /\ calls < MaxCalls
    /\ Commit(confirmDestructiveAction(World, actionId, handlerRegistry, listeners),
              Call("confirmDestructiveAction", "", <<>>, actionId))
    /\ UNCHANGED <<isProcessing, inFlight>>
    /\ UNCHANGED <<listeners, handlerRegistry, now>>

CancelDestructiveAction(actionId) ==
    /\ calls < MaxCalls
    /\ Commit(cancelDestructiveAction(World, actionId, listeners),
              Call("cancelDestructiveAction", "", <<>>, actionId))
    /\ UNCHANGED <<isProcessing, inFlight>>
    /\ UNCHANGED <<listeners, handlerRegistry, now>>

Subscribe(l) ==
    /\ l \notin Range(listeners)
    /\ listeners' = Append(listeners, l)
    /\ UNCHANGED <<isProcessing, inFlight>>
    /\ UNCHANGED <<state, nextOrder, version, data, userProvidedKeys, intents, references,
                   currentIntentId, handlerRegistry, now, intentSeq, calls, call, batch,
                   notified>>

Unsubscribe(l) ==
    /\ l \in Range(listeners)
    /\ listeners' = SelectSeq(listeners, LAMBDA x : x # l)
    /\ UNCHANGED <<isProcessing, inFlight>>
    /\ UNCHANGED <<state, nextOrder, version, data, userProvidedKeys, intents, references,
                   currentIntentId, handlerRegistry, now, intentSeq, calls, call, batch,
                   notified>>

RegisterHandlers ==
    /\ handlerRegistry # HandlerNames
    /\ handlerRegistry' = handlerRegistry \cup HandlerNames
    /\ UNCHANGED <<isProcessing, inFlight>>
    /\ UNCHANGED <<state, nextOrder, version, listeners, data, userProvidedKeys, intents,
                   references, currentIntentId, now, intentSeq, calls, call, batch, notified>>

Tick ==
    /\ now < MemMaxTime
    /\ now' = now + 1
    /\ UNCHANGED <<isProcessing, inFlight>>
    /\ UNCHANGED <<state, nextOrder, version, listeners, data, userProvidedKeys, intents,
                   references, currentIntentId, handlerRegistry, intentSeq, calls, call,
                   batch, notified>>

Next ==
    \/ \E text \in Inputs : ProcessUserInput(text)
    \/ \E formData \in Forms : HandleFormSubmission(formData)
    \/ \E actionId \in ActionIds : ConfirmDestructiveAction(actionId)
    \/ \E actionId \in ActionIds : CancelDestructiveAction(actionId)

Spec == Init /\ [][Next]_vars

-----------------------------------------------------------------------------
(* The state machine of a reference memory constructed with small options: *)
(* new IntentMemoryEngine({maxIntents, maxAge}), driven directly            *)

MemOptions == [maxIntents |-> MemMaxIntents, maxAge |-> MemMaxAge]

\* affected-id lists of the recorded intents
AffectedLists == {<<>>, <<"A">>, <<"B">>, <<"C">>, <<"A", "B">>}

Mem == [intents |-> intents, references |-> references, currentIntentId |-> currentIntentId]

MemInit ==
    /\ Init
    /\ call = NoCall

MemRecordIntent(componentIds) ==
    /\ intentSeq < MemMaxRecords
    /\ LET m == recordIntent(Mem, [input |-> "input", type |-> "test",
                                   componentIds |-> componentIds],
                             now, intentSeq + 1, MemOptions)
       IN /\ intents' = m.intents
          /\ references' = m.references
          /\ currentIntentId' = m.currentIntentId
    /\ intentSeq' = intentSeq + 1
    /\ UNCHANGED <<isProcessing, inFlight>>
    /\ UNCHANGED <<state, nextOrder, version, listeners, data, userProvidedKeys,
                   handlerRegistry, now, calls, call, batch, notified>>

\* nameComponent(componentId, name): setReference(name, componentId, Date.now())
MemNameComponent(componentId, name) ==
    /\ references' = setReference(references, name, componentId, now)
    /\ UNCHANGED <<isProcessing, inFlight>>
    /\ UNCHANGED <<state, nextOrder, version, listeners, data, userProvidedKeys, intents,
                   currentIntentId, handlerRegistry, now, intentSeq, calls, call, batch,
                   notified>>

MemNext ==
    \/ \E componentIds \in AffectedLists : MemRecordIntent(componentIds)
    \/ \E componentId \in {"A", "C"} : MemNameComponent(componentId, "Chart")
    \/ Tick

SpecMem == MemInit /\ [][MemNext]_vars

-----------------------------------------------------------------------------
(* Properties of the session *)

\* the last call submitted an intent that was processed (not a blank input)
Processed ==
    \/ call.op = "processUserInput" /\ ~IsBlank(call.input)
    \/ call.op = "handleFormSubmission"

\* the number of descriptors of a type in a render list
CountType(render, type) == Cardinality({i \in 1..Len(render) : render[i].type = type})

\* the input matches the destructive vocabulary of the decision step
IsDestructive(text) ==
    \E i \in 1..Len(destructivePatterns) : Includes(ToLowerCase(text), destructivePatterns[i])

\* C1: for every input that contains "delete all my data", the batch returned by
\* processUserInput renders exactly one GuardrailModal descriptor and its remove
\* and update lists are empty.
C1_DeleteAllRendersOneDialog ==
    (call.op = "processUserInput" /\ Includes(call.input, "delete all my data"))
        => /\ CountType(batch.render, "GuardrailModal") = 1
           /\ batch.remove = <<>>
           /\ batch.update = <<>>

\* C2: a step that submits a destructive-vocabulary input writes nothing to the fact
\* store and leaves every component that was in the tree in the tree, unchanged.
C2_DestructiveInputMutatesNothing ==
    [][(call'.op = "processUserInput" /\ IsDestructive(call'.input))
          => /\ data' = data
             /\ userProvidedKeys' = userProvidedKeys
             /\ \A i \in 1..Len(state) :
                    /\ Has(state', state[i].id)
                    /\ Component(state', state[i].id) = state[i]]_vars

\* C3: after confirmDestructiveAction("confirm-data-deletion") on a tree that held
\* the dialog, the fact store holds no user-sourced entry, the compensation keys
\* are absent, and the components that were in the tree are gone.
C3_ConfirmDeletionClearsStore ==
    (/\ call.op = "confirmDestructiveAction"
     /\ call.actionId = "confirm-data-deletion"
     /\ "confirm-data-deletion" \in Range(batch.remove))
        => /\ \A k \in DOMAIN data : data[k].source # "user"
           /\ userProvidedKeys = {}
           /\ "salary.lastMonth" \notin DOMAIN data
           /\ "salary.currentMonth" \notin DOMAIN data
           /\ \A i \in 1..Len(batch.remove) :
                  batch.remove[i] \in Range(Ids(batch.render)) \/ ~Has(state, batch.remove[i])

\* C4: a processed intent notifies each subscriber exactly once, with one diff
\* that covers the whole batch, so the only tree a subscriber observes is the
\* final one.
C4_OneNotificationPerIntent ==
    Processed
        => /\ Len(notified) = 1
           /\ \A n \in 1..Len(notified) :
                  /\ notified[n].to = listeners
                  /\ notified[n].state = state
                  /\ \A i \in 1..Len(batch.render) :
                         batch.render[i].id \in Range(notified[n].added)
                                                \cup Range(notified[n].updated)

\* the memory a notification was delivered under holds every reference that
\* indexComponents would set for the tree the notification shows
Indexed(n) ==
    LET m == [intents |-> n.intents, references |-> n.references,
              currentIntentId |-> None]
        idx == indexComponents(m, n.state, now)
    IN \A k \in DOMAIN idx.references :
           /\ k \in DOMAIN n.references
           /\ n.references[k].componentId = idx.references[k].componentId

\* C5: whenever a subscriber is notified while an intent is processed, the intent
\* has already been recorded and the memory has been re-indexed for the tree
\* the subscriber observes.
C5_MemoryIndexedWhenNotified ==
    Processed
        => \A n \in 1..Len(notified) :
               /\ Len(notified[n].intents) > 0
               /\ notified[n].intents[Len(notified[n].intents)].id = intentSeq
               /\ Indexed(notified[n])

\* the form of the end-to-end scenario
SalaryForm == <<<<"lastMonthSalary", Num(5000)>>, <<"currentMonthSalary", Num(5500)>>>>

\* the chart of a render list shows the two submitted salaries
ChartShows(render, last, current) ==
    \A i \in 1..Len(render) :
        render[i].type = "ChartView" => render[i].props.data = <<Num(last), Num(current)>>

\* C9 as stated: submitting the salary form while the form is in the tree yields a
\* batch that removes the form and renders exactly two descriptors, one
\* SummaryCards and one ChartView, the chart's data being [5000, 5500].
C9_FormYieldsTwoDescriptors ==
    [][(call'.op = "handleFormSubmission" /\ call'.formData = SalaryForm
        /\ Has(state, "salary-data-form"))
          => /\ batch'.remove = <<"salary-data-form">>
             /\ ~Has(state', "salary-data-form")
             /\ Len(batch'.render) = 2
             /\ CountType(batch'.render, "SummaryCards") = 1
             /\ CountType(batch'.render, "ChartView") = 1
             /\ ChartShows(batch'.render, 5000, 5500)]_vars

\* C9 amended: the batch removes the form and renders exactly three descriptors:
\* one SummaryCards, one ChartView whose data is [5000, 5500], and the
\* PredictiveActionBar that the execution wrapper appends.
C9_FormYieldsCardsChartAndSuggestions ==
    [][(call'.op = "handleFormSubmission" /\ call'.formData = SalaryForm
        /\ Has(state, "salary-data-form"))
          => /\ batch'.remove = <<"salary-data-form">>
             /\ ~Has(state', "salary-data-form")
             /\ Len(batch'.render) = 3
             /\ CountType(batch'.render, "SummaryCards") = 1
             /\ CountType(batch'.render, "ChartView") = 1
             /\ CountType(batch'.render, "PredictiveActionBar") = 1
             /\ ChartShows(batch'.render, 5000, 5500)]_vars

\* the salary form was in the tree and its submission has removed it
C9_Witness ==
    /\ call.op = "handleFormSubmission"
    /\ call.formData = SalaryForm
    /\ Len(notified) > 0
    /\ notified[1].removed = <<"salary-data-form">>
    /\ Has(state, "salary-comparison-chart")

\* C10: in every tree state, "show salary comparison" submitted while the store
\* holds neither salary.lastMonth nor salary.currentMonth yields a batch that
\* renders exactly one InputForm, removes nothing and renders no SummaryCards
\* or ChartView.
C10_MissingSalaryRendersForm ==
    (/\ call.op = "processUserInput"
     /\ call.input = "show salary comparison"
     /\ "salary.lastMonth" \notin DOMAIN data
     /\ "salary.currentMonth" \notin DOMAIN data)
        => /\ CountType(batch.render, "InputForm") = 1
           /\ batch.remove = <<>>
           /\ CountType(batch.render, "SummaryCards") = 0
           /\ CountType(batch.render, "ChartView") = 0

\* the comparison was requested without salary facts, over a tree that already
\* held other components
C10_Witness ==
    /\ call.op = "processUserInput"
    /\ call.input = "show salary comparison"
    /\ "salary.lastMonth" \notin DOMAIN data
    /\ "salary.currentMonth" \notin DOMAIN data
    /\ Has(state, "salary-data-form")
    /\ Len(state) >= 3

-----------------------------------------------------------------------------
(* Properties of the reference memory *)

\* C6: a reference set at time T is unresolvable once now - T > maxAge: for every
\* key bound at such a time, resolveReference returns not-found, whether or not
\* recordIntent has run since the expiry.
C6_ExpiredReferenceUnresolvable ==
    \A k \in DOMAIN references :
        now - references[k].timestamp > MemOptions.maxAge => resolveReference(Mem, k) = None

\* C7: after every recordIntent with a non-empty affected list, `this` resolves to
\* the intent's first affected id and `that` resolves to what `this` resolved to
\* immediately before the call.
C7_ThisThatRotation ==
    [][(intentSeq' = intentSeq + 1 /\ Len(intents'[Len(intents')].componentIds) > 0)
          => /\ resolveReference(Mem, "this")' = Some(intents'[Len(intents')].componentIds[1])
             /\ resolveReference(Mem, "that")' = resolveReference(Mem, "this")]_vars

\* C8: after every recordIntent call the log holds at most maxIntents records,
\* they are the most recently recorded ones in recording order, and none is
\* older than maxAge.
C8_LogCappedAfterRecord ==
    [][intentSeq' = intentSeq + 1
          => /\ Len(intents') <= MemOptions.maxIntents
             /\ \A i \in 1..Len(intents') :
                    /\ intents'[i].id = intentSeq' - Len(intents') + i
                    /\ now' - intents'[i].timestamp <= MemOptions.maxAge]_vars

-----------------------------------------------------------------------------
(* The state machine of an engine driven directly by its callers: dispatch, *)
(* dispatchAll, reset, and writes through the values its queries return     *)

\* getState: { ...this.state }, a new map of the same component objects
getState(st) == st

\* getComponent: { ...this.state[id] }, a new object with the same props object
getComponent(st, id) ==
    IF Has(st, id) THEN Some(Component(st, id))
    ELSE IF id \in PrototypeKeys THEN Some([k \in {} |-> <<>>])
    ELSE None

\* getVisibleComponents: new objects, each with the props object of its component
getVisibleComponents(st) == SortByOrder(getVisibleState(st))

\* whether the query hands the caller something to write the target through:
\* an entry of the returned map or array, a field of a returned descriptor, or
\* a key of its props
Returns(st, query, target, id) ==
    /\ CASE query = "getState" -> Has(getState(st), id)
         [] query = "getComponent" -> Has(st, id) /\ getComponent(st, id) # None
                                      /\ target # "entry"
         [] query = "getVisibleComponents" ->
                \E i \in 1..Len(getVisibleComponents(st)) : getVisibleComponents(st)[i].id = id
    /\ target = "props" => "props" \in DOMAIN Spread(st, id)

\* whether the written object is one the engine holds: the spreads copy one
\* level, so below the copy the caller and the engine share the objects
Live(query, target) ==
    CASE query = "getState" -> target \in {"field", "props"}
      [] query = "getComponent" -> target = "props"
      [] query = "getVisibleComponents" -> target = "props"

\* the tree after the write reached the engine's object
Written(st, target, id) ==
    CASE target = "field" -> Put(st, id, Merge(Spread(st, id), [type |-> "Overwritten"]))
      [] target = "props" ->
            Put(st, id, Merge(Spread(st, id),
                              [props |-> Merge(PropsOf(Spread(st, id)), [x |-> 9])]))

EngineIds == {"a", "b", "toString", "1"}

EngineProps == {[x |-> 1], [x |-> 2, y |-> 1]}

\* defineComponent(id, type, props): visible takes its default, and order is an
\* own key of the descriptor whose value is undefined
defineComponent(id, type, props) ==
    [id |-> id, type |-> type, props |-> props, visible |-> Some(TRUE), order |-> None]

EngineDescriptors ==
    {[id |-> id, type |-> "Card", props |-> props] : id \in {"a", "b"}, props \in EngineProps}
    \cup {[id |-> "a", type |-> "Card", props |-> [x |-> 1], visible |-> Some(FALSE),
           order |-> Some(5)],
          defineComponent("a", "Card", [x |-> 1]),
          [id |-> "toString", type |-> "Card", props |-> [x |-> 1]],
          [id |-> "1", type |-> "Card", props |-> [x |-> 1], order |-> Some(0)]}

EngineEdits ==
    {[type |-> "render", component |-> d] : d \in EngineDescriptors}
    \cup {[type |-> t, id |-> id] : t \in {"remove", "show", "hide"}, id \in EngineIds}
    \cup {[type |-> "update", id |-> id, props |-> props] :
             id \in EngineIds, props \in EngineProps}
    \cup {[type |-> "setOrder", id |-> id, order |-> 0] : id \in EngineIds}

EngineBatches ==
    LET edits ==
            {[type |-> "render",
              component |-> [id |-> "a", type |-> "Card", props |-> [x |-> 1]]],
             [type |-> "render",
              component |-> [id |-> "b", type |-> "Card", props |-> [x |-> 1]]],
             [type |-> "remove", id |-> "a"],
             [type |-> "hide", id |-> "b"],
             [type |-> "show", id |-> "b"],
             [type |-> "update", id |-> "a", props |-> [y |-> 1]],
             [type |-> "setOrder", id |-> "b", order |-> 0]}
    IN {<<>>} \cup {<<a, b>> : a \in edits, b \in edits}

\* the variables after an engine call that left the engine e; the diff the call
\* returned is the one its listeners were given
EngineCommit(e, c) ==
    /\ state' = e.state
    /\ nextOrder' = e.nextOrder
    /\ version' = e.version
    /\ notified' = e.notified
    /\ batch' = [added |-> e.notified[Len(e.notified)].added,
                 removed |-> e.notified[Len(e.notified)].removed,
                 updated |-> e.notified[Len(e.notified)].updated,
                 visibilityChanged |-> e.notified[Len(e.notified)].visibilityChanged,
                 state |-> e.notified[Len(e.notified)].state]
    /\ calls' = calls + 1
    /\ call' = c
    /\ UNCHANGED <<isProcessing, inFlight>>
    /\ UNCHANGED <<listeners, data, userProvidedKeys, intents, references, currentIntentId,
                   handlerRegistry, now, intentSeq>>

EngineDispatch(action) ==
    /\ calls < MaxEngineCalls
    /\ EngineCommit(dispatch(World.engine, action, Mem, listeners),
                    [op |-> "dispatch", action |-> action])

EngineDispatchAll(actions) ==
    /\ calls < MaxEngineCalls
    /\ EngineCommit(dispatchAll(World.engine, actions, Mem, listeners),
                    [op |-> "dispatchAll", actions |-> actions])

EngineReset ==
    /\ calls < MaxEngineCalls
    /\ EngineCommit(reset(World.engine, Mem, listeners), [op |-> "reset"])

\* a caller queries the engine and at once writes through what it was given
EngineWrite(query, target, id) ==
    /\ calls < MaxEngineCalls
    /\ Returns(state, query, target, id)
    /\ state' = IF Live(query, target) THEN Written(state, target, id) ELSE state
    /\ notified' = <<>>
    /\ calls' = calls + 1
    /\ call' = [op |-> "write", query |-> query, target |-> target, id |-> id]
    /\ UNCHANGED <<isProcessing, inFlight>>
    /\ UNCHANGED <<nextOrder, version, batch, listeners, data, userProvidedKeys, intents,
                   references, currentIntentId, handlerRegistry, now, intentSeq>>

EngineNext ==
    \/ \E action \in EngineEdits : EngineDispatch(action)
    \/ \E actions \in EngineBatches : EngineDispatchAll(actions)
    \/ EngineReset
    \/ \E query \in {"getState", "getComponent", "getVisibleComponents"},
          target \in {"entry", "field", "props"}, id \in EngineIds :
           EngineWrite(query, target, id)

SpecEngine == Init /\ [][EngineNext]_vars

-----------------------------------------------------------------------------
(* Properties of the engine *)

EngineCall == calls' = calls + 1 /\ call'.op \in {"dispatch", "dispatchAll", "reset"}

\* C11: along any sequence of dispatch, dispatchAll and reset calls the version
\* counter increases by exactly one per call (a batch of any length is one call,
\* a call whose edit is a no-op still counts) and it never decreases.
C11_VersionCountsCalls ==
    [][/\ version' >= version
       /\ EngineCall => version' = version + 1]_vars

\* a third call, an empty batch, brought the version to three
C11_Witness ==
    /\ call.op = "dispatchAll"
    /\ call.actions = <<>>
    /\ calls = 3
    /\ version = 3

\* C12: reset leaves the tree empty and returns a diff whose removed list holds
\* every id present immediately before the call, each exactly once, and whose
\* added, updated and visibility-changed lists are empty.
C12_ResetEmptiesTree ==
    [][(calls' = calls + 1 /\ call'.op = "reset")
          => /\ state' = <<>>
             /\ batch'.state = <<>>
             /\ Range(batch'.removed) = Range(Ids(state))
             /\ Len(batch'.removed) = Cardinality(Range(Ids(state)))
             /\ batch'.added = <<>>
             /\ batch'.updated = <<>>
             /\ batch'.visibilityChanged = <<>>]_vars

\* a reset found two components in the tree
C12_Witness ==
    /\ call.op = "reset"
    /\ Len(batch.removed) = 2
    /\ state = <<>>

\* C13: for every tree state and descriptor d, render(d) twice leaves component
\* d.id with the same props as render(d) followed by update(d.id, d.props); the
\* second render is reported as updated, not added, and creates no second
\* component.
C13_RenderTwiceAsUpdate ==
    \A d \in EngineDescriptors :
        LET once == reduce(state, [type |-> "render", component |-> d], nextOrder)
            twice == reduce(once.state, [type |-> "render", component |-> d], once.nextOrder)
            thenUpdate == reduce(once.state, [type |-> "update", id |-> d.id, props |-> d.props],
                                 once.nextOrder)
        IN /\ Component(twice.state, d.id).props = Component(thenUpdate.state, d.id).props
           /\ Component(twice.state, d.id).props = d.props
           /\ twice.updated = <<d.id>>
           /\ twice.added = <<>>
           /\ Len(twice.state) = Len(once.state)
           /\ Cardinality({i \in 1..Len(twice.state) : twice.state[i].id = d.id}) = 1

\* a descriptor was rendered over a component of its id that held other props,
\* and the render was reported as an update
C13_Witness ==
    /\ call.op = "dispatch"
    /\ call.action.type = "render"
    /\ batch.updated = <<call.action.component.id>>
    /\ batch.added = <<>>
    /\ calls = 3
    /\ Len(state) = 2

\* C14: update, remove, show, hide or setOrder with an id that is not in the
\* tree leaves the tree unchanged and returns a diff whose four id lists are
\* empty.
C14_UnknownIdIsNoOp ==
    [][(/\ calls' = calls + 1
        /\ call'.op = "dispatch"
        /\ call'.action.type \in {"update", "remove", "show", "hide", "setOrder"}
        /\ ~Has(state, call'.action.id))
          => /\ state' = state
             /\ batch'.added = <<>>
             /\ batch'.removed = <<>>
             /\ batch'.updated = <<>>
             /\ batch'.visibilityChanged = <<>>]_vars

\* C18: a write through anything getState, getComponent or getVisibleComponents
\* returned (the returned map, a returned descriptor's field, its props)
\* changes neither the engine's tree nor its version.
C18_CallersHoldCopies ==
    [][(calls' = calls + 1 /\ call'.op = "write")
          => /\ state' = state
             /\ version' = version]_vars

-----------------------------------------------------------------------------
(* The orchestrator behind a replaceable decision step: callAIOrchestrator  *)
(* is the call boundary at which a remote policy is plugged in, so what it  *)
(* settles with is an input: a rejection, or any value a parsed reply can   *)
(* be. A reply is null, a number, or an object whose keys hold lists: an    *)
(* array [array |-> elements] with null elements None, a string             *)
(* [text |-> s], or a number.                                               *)

\* response[k] || []
ListOf(response, k) == IF k \in DOMAIN response THEN response[k] ELSE [array |-> <<>>]

IsArray(list) == "array" \in DOMAIN list

\* whether for...of accepts the value: arrays and strings are iterable
Iterable(list) == "num" \notin DOMAIN list

\* the values for...of visits: the elements of an array, the characters of a string
Elements(list) ==
    IF IsArray(list) THEN list.array
    ELSE [i \in 1..Len(list.text) |-> Some(SubSeq(list.text, i, i))]

\* the elements before the first null one
RECURSIVE BeforeNull(_)
BeforeNull(elements) ==
    IF elements = <<>> \/ Head(elements) = None THEN <<>>
    ELSE <<Head(elements)[1]>> \o BeforeNull(Tail(elements))

HasNull(elements) == \E i \in 1..Len(elements) : elements[i] = None

\* the reply throws before the first dispatch: response.render on null, .map
\* on a value that is no array, component.props on a null component, for...of
\* on a removal list that is not iterable
ThrowsBeforeDispatch(response) ==
    \/ response = Null
    \/ ~IsArray(ListOf(response, "render"))
    \/ HasNull(ListOf(response, "render").array)
    \/ ~Iterable(ListOf(response, "remove"))

\* the update loop throws: for...of on a list that is not iterable, or
\* update.id on a null element
ThrowsInUpdates(response) ==
    \/ ~Iterable(ListOf(response, "update"))
    \/ HasNull(Elements(ListOf(response, "update")))

\* afterFormRule calls context.lastAction.includes: it throws when the reply
\* has no notes, after the three loops
ThrowsInPredictions(response) == "notes" \notin DOMAIN response

\* the message of the TypeError, as V8 words it
TypeErrorMessage(response) ==
    IF response = Null THEN "Cannot read properties of null (reading 'render')"
    ELSE IF ~IsArray(ListOf(response, "render"))
    THEN "(response.render || []).map is not a function"
    ELSE IF HasNull(ListOf(response, "render").array)
    THEN "Cannot read properties of null (reading 'props')"
    ELSE IF ~Iterable(ListOf(response, "remove")) THEN "actions.remove is not iterable"
    ELSE IF ~Iterable(ListOf(response, "update")) THEN "actions.update is not iterable"
    ELSE IF HasNull(Elements(ListOf(response, "update")))
    THEN "Cannot read properties of null (reading 'id')"
    ELSE "Cannot read properties of undefined (reading 'includes')"

\* the dispatches of the removal loop and of the update loop up to the throw
RemoveActions(response) ==
    [i \in 1..Len(Elements(ListOf(response, "remove"))) |->
        [type |-> "remove", id |-> Elements(ListOf(response, "remove"))[i][1]]]

UpdateActions(response) ==
    LET each(updates) ==
            [i \in 1..Len(updates) |->
                [type |-> "update", id |-> updates[i].id, props |-> updates[i].props]]
    IN IF Iterable(ListOf(response, "update"))
       THEN each(BeforeNull(Elements(ListOf(response, "update"))))
       ELSE <<>>

RenderActions(response, handlers) ==
    [i \in 1..Len(ListOf(response, "render").array) |->
        [type |-> "render",
         component |-> attachHandlers(ListOf(response, "render").array[i][1], handlers)]]

\* the reply as executeOrchestratorActions reads it when nothing throws
ResponseRead(response) ==
    [render |-> BeforeNull(ListOf(response, "render").array),
     remove |-> BeforeNull(Elements(ListOf(response, "remove"))),
     update |-> BeforeNull(Elements(ListOf(response, "update"))),
     notes |-> response.notes]

\* the batch the catch block of processUserInput returns
ErrorBatch(message) ==
    [render |-> <<Descriptor("error-state", "EmptyState",
                      [title |-> "Something went wrong",
                       description |-> "Please try again."], 0)>>,
     remove |-> <<>>,
     update |-> <<>>,
     debug |-> [reasoning |-> "Error processing request: " \o message,
                componentDecisions |->
                    <<[id |-> "error-state", type |-> "EmptyState",
                       reason |-> "Error occurred. Showing user-friendly error message.",
                       confidence |-> 10]>>]]

\* executeOrchestratorActions on any reply, inside the try block: the world
\* when the call returns or when the catch block has run. A throw leaves the
\* dispatches made before it in place and skips recordIntent and
\* indexComponents; a removal list given as a string is returned as it came.
TryExecute(w, response, handlers, ls, t) ==
    LET caught(e) == [w EXCEPT !.engine = e,
                               !.actions = ErrorBatch(TypeErrorMessage(response))]
        returned(done) ==
            IF IsArray(ListOf(response, "remove")) THEN done
            ELSE [done EXCEPT !.actions.remove = response.remove.text]
    IN IF ThrowsBeforeDispatch(response) THEN caught(w.engine)
       ELSE IF ThrowsInUpdates(response)
       THEN caught(DispatchEach(w.engine,
                       RemoveActions(response) \o UpdateActions(response), w.mem, ls))
       ELSE IF ThrowsInPredictions(response)
       THEN caught(DispatchEach(w.engine,
                       ExecutionOrder(RemoveActions(response), UpdateActions(response),
                                      RenderActions(response, handlers)),
                       w.mem, ls))
       ELSE returned(executeOrchestratorActions(w, ResponseRead(response), handlers, ls, t))

\* processUserInput when callAIOrchestrator settles with the outcome: a
\* rejection [rejects |-> message] or a reply [resolves |-> response]
processUserInputOn(w, userInput, outcome, handlers, ls, t) ==
    IF userInput = "" \/ IsBlank(userInput) THEN w
    ELSE IF "rejects" \in DOMAIN outcome
    THEN [w EXCEPT !.actions = ErrorBatch(outcome.rejects)]
    ELSE TryExecute(w, outcome.resolves, handlers, ls, t)

\* the components and replies of the model
PolicyCard(id, props) == Descriptor(id, "Card", props, 0)

PolicyReply(render, remove, update) ==
    [render |-> [array |-> render], remove |-> remove, update |-> update, notes |-> "done"]

PolicyOutcomes ==
    {[rejects |-> "policy unavailable"],
     [resolves |-> Null],
     [resolves |-> Num(7)],
     [resolves |-> [render |-> Num(7), remove |-> [array |-> <<Some("a")>>],
                    update |-> [array |-> <<>>], notes |-> "done"]],
     [resolves |-> PolicyReply(<<None>>, [array |-> <<Some("a")>>], [array |-> <<>>])],
     [resolves |-> PolicyReply(<<>>, Num(7), [array |-> <<>>])],
     [resolves |-> PolicyReply(<<>>, [array |-> <<Some("a")>>], Num(7))],
     [resolves |-> PolicyReply(<<Some(PolicyCard("b", [x |-> 2]))>>,
                               [array |-> <<Some("a")>>], [array |-> <<None>>])],
     [resolves |-> [render |-> [array |-> <<Some(PolicyCard("a", [x |-> 3]))>>]]],
     [resolves |-> PolicyReply(<<>>, [text |-> "ab"], [array |-> <<>>])],
     [resolves |-> PolicyReply(<<Some(PolicyCard("a", [x |-> 1])),
                                 Some(PolicyCard("b", [x |-> 1]))>>,
                               [array |-> <<>>], [array |-> <<>>])],
     [resolves |-> PolicyReply(<<Some(PolicyCard("a", [x |-> 2]))>>,
                               [array |-> <<Some("a")>>], [array |-> <<>>])],
     [resolves |-> PolicyReply(<<Some(PolicyCard("a", [x |-> 1]))>>, [array |-> <<>>],
                               [array |-> <<Some([id |-> "a", props |-> [x |-> 2, y |-> 1]])>>])],
     [resolves |-> PolicyReply(<<>>, [array |-> <<>>],
                               [array |-> <<Some([id |-> "a", props |-> [y |-> 1]])>>])],
     [resolves |-> PolicyReply(<<>>, [array |-> <<Some("b")>>], [array |-> <<>>])],
     [resolves |-> PolicyReply(<<Some([id |-> "h", type |-> "Card", props |-> [x |-> 1],
                                      visible |-> Some(FALSE), order |-> Some(5)])>>,
                               [array |-> <<>>], [array |-> <<>>])]}

\* a client calls processUserInput and the decision step settles with the outcome
Decide(text, outcome) ==
    /\ calls < MaxCalls
    /\ Commit(processUserInputOn(World, text, outcome, handlerRegistry, listeners, now),
              [op |-> "processUserInput", input |-> text, outcome |-> outcome])
    /\ UNCHANGED <<isProcessing, inFlight>>
    /\ UNCHANGED <<listeners, handlerRegistry, now>>

PolicyNext == \E text \in {"", "hello"}, outcome \in PolicyOutcomes : Decide(text, outcome)

SpecPolicy == Init /\ [][PolicyNext]_vars

-----------------------------------------------------------------------------
(* Properties of the orchestrator behind a decision step *)

\* the last call was a processUserInput that reached the decision step
Decided == call.op = "processUserInput" /\ "outcome" \in DOMAIN call /\ ~IsBlank(call.input)

\* the list under key k of a reply is not an array of non-null elements
MalformedIn(response, k) ==
    k \in DOMAIN response /\ (~IsArray(response[k]) \/ HasNull(response[k].array))

\* the reply is not an OrchestratorResponse: not an object with the three
\* lists and the notes
Malformed(response) ==
    \/ {"render", "remove", "update", "notes"} \ DOMAIN response # {}
    \/ \E k \in {"render", "remove", "update"} : MalformedIn(response, k)

\* the batch is the one of the catch block: one informational component, no
\* removals, no updates, a debug entry
IsErrorBatch(b) ==
    /\ Len(b.render) = 1
    /\ b.render[1].id = "error-state"
    /\ b.render[1].type = "EmptyState"
    /\ b.remove = <<>>
    /\ b.update = <<>>
    /\ "debug" \in DOMAIN b

\* C15: whenever the decision step rejects or replies with a malformed response,
\* processUserInput returns the error batch (exactly one informational
\* component rendered, nothing removed, nothing updated) and its debug entry
\* carries the failure reason
C15_FailureYieldsErrorBatch ==
    Decided =>
        /\ "rejects" \in DOMAIN call.outcome =>
               /\ IsErrorBatch(batch)
               /\ batch.debug.reasoning = "Error processing request: " \o call.outcome.rejects
        /\ ("resolves" \in DOMAIN call.outcome /\ Malformed(call.outcome.resolves)) =>
               /\ IsErrorBatch(batch)
               /\ Len(batch.debug.reasoning) > Len("Error processing request: ")

\* C16: on every call of processUserInput that returns the error batch after
\* the decision step rejected or replied with a malformed render, remove or
\* update list, the tree is the one before the call and no intent was recorded
C16_FailureAppliesNothing ==
    [][(/\ Decided'
        /\ \/ "rejects" \in DOMAIN call'.outcome
           \/ \E k \in {"render", "remove", "update"} : MalformedIn(call'.outcome.resolves, k)
        /\ IsErrorBatch(batch'))
       => (state' = state /\ intents' = intents)]_vars

\* C17: after every call that executed a well-formed reply, each id of both
\* the removal list and the render list is in the tree, and each component of
\* the render list whose id is also in the update list is in the tree with
\* every field as the render list gives it
C17_RemoveThenUpdateThenRender ==
    (Decided /\ "resolves" \in DOMAIN call.outcome /\ ~Malformed(call.outcome.resolves)) =>
        \A i \in 1..Len(batch.render) :
            /\ batch.render[i].id \in Range(batch.remove) => Has(state, batch.render[i].id)
            /\ batch.render[i].id \in Range(Ids(batch.update)) =>
                   /\ Has(state, batch.render[i].id)
                   /\ \A k \in DOMAIN batch.render[i] :
                          Component(state, batch.render[i].id)[k] = batch.render[i][k]

\* a reply that updates and renders the component "a" was executed on a tree
\* that held it: the update was applied, then the render
C17_Witness ==
    /\ Decided
    /\ "resolves" \in DOMAIN call.outcome
    /\ ~Malformed(call.outcome.resolves)
    /\ Ids(batch.update) = <<"a">>
    /\ Ids(batch.render) = <<"a">>
    /\ Len(notified) = 2
    /\ notified[1].updated = <<"a">>
    /\ notified[2].updated = <<"a">>
    /\ Component(state, "a").props = [x |-> 1]

-----------------------------------------------------------------------------
(* The state machine of a fact store driven directly by its callers: *)
(* new DataStore(), then set, setMany, delete, resetToMock and clear  *)

MaxStoreCalls == 3

\* keys the callers use: two that are never defaulted, one derived, two with
\* a default, one the store has never heard of, one that names a member of
\* Object.prototype
StoreKeys ==
    {"salary.lastMonth", "user.email", "expenses.total", "expenses.rent", "income.bonuses",
     "notes.memo", "toString"}

StoreValues == {Num(7000), Str("x"), Null}

StoreEntries ==
    {<<>>,
     <<<<"salary.lastMonth", Num(5000)>>, <<"salary.currentMonth", Num(5500)>>>>,
     <<<<"expenses.total", Num(3000)>>, <<"expenses.rent", Num(900)>>>>,
     <<<<"user.email", Str("x")>>, <<"user.email", Null>>>>}

Store == [data |-> data, userProvidedKeys |-> userProvidedKeys]

\* the variables after a store call that left the store ds and returned a value
StoreCommit(ds, c, returned) ==
    /\ data' = ds.data
    /\ userProvidedKeys' = ds.userProvidedKeys
    /\ calls' = calls + 1
    /\ call' = c
    /\ batch' = [returned |-> returned]
    /\ UNCHANGED <<isProcessing, inFlight>>
    /\ UNCHANGED <<state, nextOrder, version, listeners, intents, references,
                   currentIntentId, handlerRegistry, now, intentSeq, notified>>

StoreSet(key, value) ==
    /\ calls < MaxStoreCalls
    /\ StoreCommit(set(Store, key, value), [op |-> "set", key |-> key, value |-> value], None)

StoreSetMany(entries) ==
    /\ calls < MaxStoreCalls
    /\ StoreCommit(setMany(Store, entries), [op |-> "setMany", entries |-> entries], None)

StoreDelete(key) ==
    /\ calls < MaxStoreCalls
    /\ StoreCommit(delete(Store, key), [op |-> "delete", key |-> key], None)

StoreResetToMock(key) ==
    /\ calls < MaxStoreCalls
    /\ StoreCommit(resetToMock(Store, key), [op |-> "resetToMock", key |-> key],
                   Some(Resettable(key)))

StoreClear ==
    /\ calls < MaxStoreCalls
    /\ StoreCommit(clear(Store), [op |-> "clear"], None)

StoreNext ==
    \/ \E key \in StoreKeys, value \in StoreValues : StoreSet(key, value)
    \/ \E entries \in StoreEntries : StoreSetMany(entries)
    \/ \E key \in StoreKeys : StoreDelete(key)
    \/ \E key \in StoreKeys : StoreResetToMock(key)
    \/ StoreClear

SpecStore == Init /\ [][StoreNext]_vars

-----------------------------------------------------------------------------
(* Properties of the fact store *)

\* C19: in every state of the store no key of USER_REQUIRED_FIELDS holds an entry
\* of source "mock", and get on such a key returns null unless the key is
\* user-provided; after clear, get returns null on every such key
C19_RequiredKeysNeverMocked ==
    \A k \in USER_REQUIRED_FIELDS :
        /\ k \in DOMAIN data => data[k].source # "mock"
        /\ ~isUserProvided(Store, k) => get(data, k) = Null
        /\ call.op = "clear" => get(data, k) = Null

\* a required key was supplied by set, and resetToMock on it then refused to
\* put a default in its place
C19_Witness ==
    /\ call.op = "resetToMock"
    /\ call.key = "salary.lastMonth"
    /\ batch.returned = Some(FALSE)
    /\ isUserProvided(Store, "salary.lastMonth")
    /\ get(data, "salary.lastMonth") = Num(7000)

\* C20: for every key whose entry was written by set with a non-null value and
\* not since deleted, reset or cleared, get returns that value and
\* isUserProvided is true
C20_UserValueIsRead ==
    \A k \in DOMAIN data :
        (data[k].source = "user" /\ data[k].value # Null) =>
            /\ get(data, k) = data[k].value
            /\ isUserProvided(Store, k)

\* C21: every resetToMock(key) on a key without a sample default, or on a key of
\* USER_REQUIRED_FIELDS, returns false and leaves the store as it was; on every
\* other key it returns true, the entry becomes the sample default with source
\* "mock", and the key is no longer user-provided
C21_ResetToDefault ==
    [][(call'.op = "resetToMock" /\ calls' = calls + 1) =>
          IF call'.key \notin DOMAIN MOCK_DATA \/ call'.key \in USER_REQUIRED_FIELDS
          THEN /\ batch'.returned = Some(FALSE)
               /\ data' = data
               /\ userProvidedKeys' = userProvidedKeys
          ELSE /\ batch'.returned = Some(TRUE)
               /\ data'[call'.key] = [value |-> MOCK_DATA[call'.key], source |-> "mock"]
               /\ call'.key \notin userProvidedKeys']_vars

\* component types a caller asks the projection for: three with keys on their
\* list, one with an empty list, one without a list, one that names a member
\* of Object.prototype
ProjectedTypes ==
    {"SummaryCards", "ChartView", "DateRangePicker", "EmptyState", "Sidebar", "constructor"}

\* the keys on the access list of a type, none for a type without a list
AccessList(type) ==
    IF type \in {"SummaryCards"}
    THEN {"salary.lastMonth", "salary.currentMonth", "salary.change", "salary.changePercent",
          "salary.trend", "expenses.total", "income.total", "accounts.netWorth"}
    ELSE IF type = "ChartView"
    THEN {"salary.lastMonth", "salary.currentMonth", "income.total", "expenses.total"}
    ELSE IF type = "DateRangePicker" THEN {"time.currentMonth", "time.lastMonth"}
    ELSE {}

\* C22: in every state of the store and for every component type, forComponent
\* returns a map whose keys are all on the type's access list, each with the
\* value get returns for it; for a type without an access list the map is empty
C22_ProjectionWithinAccessList ==
    \A type \in ProjectedTypes :
        /\ "result" \in DOMAIN forComponent(data, type)
        /\ DOMAIN forComponent(data, type).result \subseteq AccessList(type)
        /\ \A k \in DOMAIN forComponent(data, type).result :
               forComponent(data, type).result[k] = get(data, k)

-----------------------------------------------------------------------------
(* The state machine of the suggestion engine: components are rendered into *)
(* a tree, and getPredictiveActions is asked for the suggestions of the     *)
(* visible ones together with the notes of the last reply                   *)

MaxPredictCalls == 5

PredictComponents ==
    {Descriptor("empty-state", "EmptyState", [title |-> "Welcome"], 0),
     Descriptor("salary-comparison-cards", "SummaryCards",
                [cards |-> <<[title |-> "Last Month"]>>], 1),
     Descriptor("salary-comparison-chart", "ChartView", [title |-> "Salary"], 2),
     Descriptor("expense-cards", "SummaryCards", [cards |-> <<[title |-> "Total Expenses"]>>], 3)}

PredictNotes ==
    {"", "Removed salary-data-form and rendered salary-comparison-cards", "Displayed chart"}

PredictRender(component) ==
    /\ calls < MaxPredictCalls
    /\ EngineCommit(dispatch(World.engine, [type |-> "render", component |-> component],
                             Mem, listeners),
                    [op |-> "dispatch", action |-> [type |-> "render", component |-> component]])

PredictQuery(notes) ==
    /\ calls < MaxPredictCalls
    /\ batch' = [returned |->
                    getPredictiveActions(buildPredictionContext(getVisibleState(state), notes))]
    /\ calls' = calls + 1
    /\ call' = [op |-> "getPredictiveActions", notes |-> notes]
    /\ notified' = <<>>
    /\ UNCHANGED <<isProcessing, inFlight>>
    /\ UNCHANGED <<state, nextOrder, version, listeners, data, userProvidedKeys, intents,
                   references, currentIntentId, handlerRegistry, now, intentSeq>>

PredictNext ==
    \/ \E component \in PredictComponents : PredictRender(component)
    \/ \E notes \in PredictNotes : PredictQuery(notes)

SpecPredict == Init /\ [][PredictNext]_vars

-----------------------------------------------------------------------------
(* Properties of the suggestion engine *)

\* the outputs of all rules on the context of the last query, in rule order
RuleOutputs == PREDICTION_RULES(buildPredictionContext(getVisibleState(state), call.notes))

\* the place of the j-th rule output among the qualifying ones: one more than
\* the number of those of higher confidence or of equal confidence and earlier
Place(all, j) ==
    1 + Cardinality({k \in 1..Len(all) :
                        /\ all[k].confidence >= MIN_CONFIDENCE
                        /\ \/ all[k].confidence > all[j].confidence
                           \/ all[k].confidence = all[j].confidence /\ k < j})

\* C23: getPredictiveActions returns at most MAX_SUGGESTIONS suggestions, each of
\* confidence at least MIN_CONFIDENCE, in descending confidence, and they are
\* the qualifying rule outputs of the first MAX_SUGGESTIONS places, equal
\* confidences placed in rule order
C23_TopSuggestions ==
    call.op = "getPredictiveActions" =>
        /\ Len(batch.returned) <= MAX_SUGGESTIONS
        /\ \A i \in 1..Len(batch.returned) : batch.returned[i].confidence >= MIN_CONFIDENCE
        /\ \A i \in 1..(Len(batch.returned) - 1) :
               batch.returned[i].confidence >= batch.returned[i + 1].confidence
        /\ \A j \in 1..Len(RuleOutputs) :
               (RuleOutputs[j].confidence >= MIN_CONFIDENCE
                /\ Place(RuleOutputs, j) <= MAX_SUGGESTIONS) =>
                   /\ Place(RuleOutputs, j) <= Len(batch.returned)
                   /\ batch.returned[Place(RuleOutputs, j)] = RuleOutputs[j]

\* five rule outputs qualified, a later one of higher confidence than an
\* earlier one, and three were returned
C23_Witness ==
    /\ call.op = "getPredictiveActions"
    /\ Len(RuleOutputs) = 5
    /\ RuleOutputs[3].confidence < RuleOutputs[4].confidence
    /\ Len(batch.returned) = 3
    /\ batch.returned[2] = RuleOutputs[4]

-----------------------------------------------------------------------------
(* Properties of the engine's queries and edits *)

\* the position of the component id in a list of components
PositionIn(components, id) == CHOOSE i \in 1..Len(components) : components[i].id = id

\* C24: after every edit getVisibleComponents returns exactly the components
\* whose visible is true, in ascending order of their order field, and a
\* component the edit has just inserted comes after every component of equal
\* order that was in the tree before it
C24_VisibleSortedStable ==
    [][/\ Range(getVisibleComponents(state'))
            = {state'[i] : i \in {j \in 1..Len(state') : Field(state'[j], "visible") = Some(TRUE)}}
       /\ Len(getVisibleComponents(state'))
            = Cardinality({j \in 1..Len(state') : Field(state'[j], "visible") = Some(TRUE)})
       /\ \A i \in 1..(Len(getVisibleComponents(state')) - 1) :
              OrElse(Field(getVisibleComponents(state')[i], "order"), 0)
                  <= OrElse(Field(getVisibleComponents(state')[i + 1], "order"), 0)
       /\ \A new \in Range(getVisibleComponents(state')), old \in Range(getVisibleComponents(state')) :
              (/\ ~Has(state, new.id)
               /\ Has(state, old.id)
               /\ OrElse(Field(new, "order"), 0) = OrElse(Field(old, "order"), 0))
              => PositionIn(getVisibleComponents(state'), old.id)
                     < PositionIn(getVisibleComponents(state'), new.id)]_vars

-----------------------------------------------------------------------------
(* Properties of the re-index and of the intent log *)

\* the last call executed a reply to its end: intent recorded, tree re-indexed
Executed == Decided /\ "resolves" \in DOMAIN call.outcome /\ "debug" \notin DOMAIN batch

\* the component the reference key resolves to is in the tree, is visible, and
\* no visible component has an order on the far side of its own
BoundToExtreme(key, least) ==
    /\ resolveReference(Mem, key) # None
    /\ Has(state, resolveReference(Mem, key)[1])
    /\ Field(Component(state, resolveReference(Mem, key)[1]), "visible") = Some(TRUE)
    /\ \A i \in 1..Len(state) :
           Field(state[i], "visible") = Some(TRUE) =>
               IF least
               THEN OrElse(Field(Component(state, resolveReference(Mem, key)[1]), "order"), 0)
                        <= OrElse(Field(state[i], "order"), 0)
               ELSE OrElse(Field(Component(state, resolveReference(Mem, key)[1]), "order"), 0)
                        >= OrElse(Field(state[i], "order"), 0)

\* C25: after every call that executed a reply and re-indexed the tree, if the
\* tree has a visible component then "first" resolves to a visible component of
\* the lowest order and "last" to a visible component of the highest order
C25_FirstLastAmongVisible ==
    (Executed /\ \E i \in 1..Len(state) : Field(state[i], "visible") = Some(TRUE)) =>
        /\ BoundToExtreme("first", TRUE)
        /\ BoundToExtreme("last", FALSE)

\* C26: every processUserInput call on an input that is not blank appends
\* exactly one intent to the log, after the intents the log retains; its
\* componentIds are the removed ids, then the updated ids, then the rendered
\* ids of the returned batch, the suggestion bar included; and the memory has
\* been re-indexed for the new tree: "first" and "last" resolve to its
\* components of lowest and highest order, and the type of each of its
\* components resolves. A call on an empty or whitespace-only input records
\* no intent and changes nothing.
C26_OneIntentPerExecution ==
    [][(call'.op = "processUserInput" /\ calls' = calls + 1) =>
          IF IsBlank(call'.input)
          THEN /\ UNCHANGED <<state, nextOrder, version, data, userProvidedKeys, intents,
                              references, currentIntentId, intentSeq>>
               /\ notified' = <<>>
               /\ batch' = [render |-> <<>>, remove |-> <<>>, update |-> <<>>]
          ELSE /\ Len(intents') > 0
               /\ \E n \in 0..Len(intents) :
                      SubSeq(intents', 1, Len(intents') - 1)
                          = SubSeq(intents, n + 1, Len(intents))
               /\ intents'[Len(intents')].id = intentSeq'
               /\ intentSeq' = intentSeq + 1
               /\ intents'[Len(intents')].componentIds
                      = batch'.remove \o Ids(batch'.update) \o Ids(batch'.render)
               /\ state' # <<>> =>
                      /\ resolveReference(Mem', "first") = Some(SortByOrder(state')[1].id)
                      /\ resolveReference(Mem', "last")
                             = Some(SortByOrder(state')[Len(state')].id)
                      /\ \A i \in 1..Len(state') :
                             TruthyId(resolveReference(Mem', ToLowerCase(state'[i].type)))]_vars

\* a call removed a component, rendered others and the suggestion bar, and
\* recorded them in one intent after an earlier one
C26_Witness ==
    /\ call.op = "processUserInput"
    /\ Len(intents) = 2
    /\ Len(batch.remove) > 0
    /\ \E i \in 1..Len(batch.render) : batch.render[i].id = "predictive-actions"
    /\ intents[2].componentIds = batch.remove \o Ids(batch.update) \o Ids(batch.render)

-----------------------------------------------------------------------------
(* The state machine of the client, OrchestratorClient.  A submission that *)
(* is accepted starts an orchestrator call; the call runs up to its        *)
(* decision step (await callAIOrchestrator) and stays in flight until that *)
(* step settles, when the rest of processUserInput runs and the finally    *)
(* block of the submitting handler clears isProcessing.  The handlers of   *)
(* the registry are created by an effect whose dependencies never change,  *)
(* so the handleSubmit and handlePredictActionClick they call are those of *)
(* the first render, which captured the initial isProcessing.              *)

MaxClientCalls == 4

\* useState(false): the isProcessing the first render's callbacks captured
MountedIsProcessing == FALSE

ClientTexts == {"", "hello"}

ClientOutcomes ==
    {[rejects |-> "policy unavailable"],
     [resolves |-> PolicyReply(<<Some(PolicyCard("a", [x |-> 1]))>>,
                               [array |-> <<>>], [array |-> <<>>])],
     [resolves |-> PolicyReply(<<>>, [array |-> <<Some("a")>>], [array |-> <<>>])]}

\* the event is recorded; nothing else changes
ClientIgnores(c) ==
    /\ calls' = calls + 1
    /\ call' = c
    /\ UNCHANGED <<state, nextOrder, version, listeners, data, userProvidedKeys, intents,
                   references, currentIntentId, handlerRegistry, now, intentSeq, batch,
                   notified, isProcessing, inFlight>>

\* setIsProcessing(true), then the orchestrator call starts and suspends at its
\* decision step
ClientStarts(op, input, ds, c) ==
    /\ isProcessing' = TRUE
    /\ inFlight' = Append(inFlight, [op |-> op, input |-> input])
    /\ data' = ds.data
    /\ userProvidedKeys' = ds.userProvidedKeys
    /\ calls' = calls + 1
    /\ call' = c
    /\ UNCHANGED <<state, nextOrder, version, listeners, intents, references,
                   currentIntentId, handlerRegistry, now, intentSeq, batch, notified>>

\* handleSubmit of a render in which isProcessing was processing
handleSubmit(processing, text, c) ==
    IF IsBlank(text) \/ processing THEN ClientIgnores(c)
    ELSE ClientStarts("processUserInput", text, Store, c)

\* handlePredictActionClick of a render in which isProcessing was processing
handlePredictActionClick(processing, input, c) ==
    IF processing THEN ClientIgnores(c)
    ELSE ClientStarts("processUserInput", input, Store, c)

\* the text input submits what was typed: handleSubmit of the latest render
TypedSubmit(text) ==
    /\ calls < MaxClientCalls
    /\ handleSubmit(isProcessing, text, Call("handleSubmit", text, <<>>, ""))

\* the registry's onEmptyStateAction
EmptyStateAction ==
    /\ calls < MaxClientCalls
    /\ handleSubmit(MountedIsProcessing, "Show me what you can do",
                    Call("onEmptyStateAction", "Show me what you can do", <<>>, ""))

\* the registry's onPredictAction, called by a suggestion with its label
PredictAction(input) ==
    /\ calls < MaxClientCalls
    /\ handlePredictActionClick(MountedIsProcessing, input,
                                Call("onPredictAction", input, <<>>, ""))

\* the registry's onFormSubmit: handleFormSubmission stores the form's data and
\* calls processUserInput with the form's context
FormSubmit(formData) ==
    /\ calls < MaxClientCalls
    /\ ClientStarts("handleFormSubmission",
                    "Form submitted with " \o FormContext(MapFormData(<<>>, formData)),
                    processFormData(Store, MapFormData(<<>>, formData)),
                    Call("onFormSubmit", "", formData, ""))

\* the decision step of the i-th call in flight settles: the call executes the
\* reply (or reports the failure) and its handler's finally block runs
Settle(i, outcome) ==
    /\ i \in 1..Len(inFlight)
    /\ Commit(processUserInputOn(World, inFlight[i].input, outcome, handlerRegistry,
                                 listeners, now),
              [op |-> "settle", input |-> inFlight[i].input, outcome |-> outcome])
    /\ isProcessing' = FALSE
    /\ inFlight' = [j \in 1..(Len(inFlight) - 1) |->
                       IF j < i THEN inFlight[j] ELSE inFlight[j + 1]]
    /\ UNCHANGED <<listeners, handlerRegistry, now>>

ClientNext ==
    \/ \E text \in ClientTexts : TypedSubmit(text)
    \/ EmptyStateAction
    \/ \E input \in {"hello"} : PredictAction(input)
    \/ \E formData \in Forms : FormSubmit(formData)
    \/ \E i \in 1..2, outcome \in ClientOutcomes : Settle(i, outcome)

SpecClient == Init /\ [][ClientNext]_vars

-----------------------------------------------------------------------------
(* Properties of the client *)

\* C27: intent processing is not reentrant in the client: at no time are two
\* processUserInput / handleFormSubmission calls in flight together, and a
\* submission made while a call is in flight starts no call.
C27_OneCallInFlight ==
    [][/\ Len(inFlight') <= 1
       /\ (inFlight # <<>> /\ call'.op # "settle") => inFlight' = inFlight]_vars

-----------------------------------------------------------------------------
(* The state machine of the engine and its subscribers: listeners come and *)
(* go between the engine's calls.                                          *)

ListenerPool == {"l1", "l2", "l3"}

ListenEdits ==
    {[type |-> "render", component |-> [id |-> "a", type |-> "Card", props |-> [x |-> 1]]],
     [type |-> "render", component |-> [id |-> "b", type |-> "Card", props |-> [x |-> 1]]],
     [type |-> "update", id |-> "a", props |-> [x |-> 2]],
     [type |-> "hide", id |-> "a"],
     [type |-> "remove", id |-> "a"]}

ListenBatches == {<<>>, <<[type |-> "hide", id |-> "a"], [type |-> "remove", id |-> "b"]>>}

ListenNext ==
    \/ \E action \in ListenEdits : EngineDispatch(action)
    \/ \E actions \in ListenBatches : EngineDispatchAll(actions)
    \/ EngineReset
    \/ \E l \in ListenerPool : Subscribe(l)
    \/ \E l \in ListenerPool : Unsubscribe(l)

SpecListen == Init /\ [][ListenNext]_vars

-----------------------------------------------------------------------------
(* Properties of the subscription channel *)

\* how many times the listener l was called in the notification n
TimesCalled(n, l) == Cardinality({i \in 1..Len(n.to) : n.to[i] = l})

\* C28: on every dispatch and reset, every listener that is subscribed is called
\* exactly once, while the call runs and after the tree and the version were
\* updated (what the listener is given and what it can query are the tree and
\* the version after the edit), also when a listener called before it throws;
\* a listener that is not subscribed is not called.
C28_EachListenerOnce ==
    [][EngineCall =>
          /\ Len(notified') = 1
          /\ \A l \in ListenerPool :
                 TimesCalled(notified'[1], l) = IF l \in Range(listeners) THEN 1 ELSE 0
          /\ notified'[1].state = state'
          /\ notified'[1].version = version'
          /\ version' = version + 1]_vars

\* listener l1 has unsubscribed, the throwing listener l2 subscribed before l3,
\* and a dispatch that changed the tree called l2 and then l3
C28_Witness ==
    /\ call.op = "dispatch"
    /\ listeners = <<"l2", "l3">>
    /\ Len(notified) = 1
    /\ notified[1].to = <<"l2", "l3">>
    /\ notified[1].added # <<>>

-----------------------------------------------------------------------------
(* Properties of batches and of single edits *)

\* the lists the notifications ns carry under the field, one after another
RECURSIVE Concatenated(_, _)
Concatenated(ns, field) ==
    IF ns = <<>> THEN <<>>
    ELSE Head(ns)[field] \o Concatenated(Tail(ns), field)

\* C29: dispatching a batch of e1..en leaves the tree that dispatching e1, ..,
\* en one after another leaves, and each diff list of the batch is the
\* concatenation, in order, of the lists of the single dispatches.
C29_BatchIsSequence ==
    [][(calls' = calls + 1 /\ call'.op = "dispatchAll") =>
          LET same(each) ==
                  /\ state' = each.state
                  /\ nextOrder' = each.nextOrder
                  /\ \A field \in {"added", "removed", "updated", "visibilityChanged"} :
                         batch'[field] = Concatenated(each.notified, field)
          IN same(DispatchEach(World.engine, call'.actions, Mem, listeners))]_vars

\* a batch of two edits on a tree that an earlier call built: one edit changed
\* the visibility of a component and the other updated a component
C29_Witness ==
    /\ call.op = "dispatchAll"
    /\ Len(call.actions) = 2
    /\ version >= 2
    /\ Len(batch.visibilityChanged) = 1
    /\ Len(batch.updated) = 1
    /\ Len(state) = 2

\* the components of the tree other than id, in the tree's order
Others(st, id) == SelectSeq(st, LAMBDA c : c.id # id)

\* the component after differs from the component before in the field only
OnlyFieldChanged(before, after, field) ==
    /\ DOMAIN after = DOMAIN before \cup {field}
    /\ \A k \in DOMAIN before \ {field} : after[k] = before[k]

NoneReported(diff) ==
    diff.added = <<>> /\ diff.removed = <<>> /\ diff.updated = <<>>
        /\ diff.visibilityChanged = <<>>

\* the edit of the last dispatch, made on a component of the tree
EditOf(types) ==
    /\ calls' = calls + 1
    /\ call'.op = "dispatch"
    /\ call'.action.type \in types
    /\ Has(state, call'.action.id)

\* C30: a single edit leaves every component other than its target unchanged.
\* On a component of the tree, update merges the given keys into props and
\* leaves the other keys of props, type, visible and order as they were; show
\* and hide change visible only, and only when the visibility differs (else the
\* tree is unchanged and nothing is reported); setOrder changes order only.
C30_EditChangesOnlyItsField ==
    [][/\ (calls' = calls + 1 /\ call'.op = "dispatch")
           => LET id == IF call'.action.type = "render" THEN call'.action.component.id
                        ELSE call'.action.id
              IN Others(state', id) = Others(state, id)
       /\ EditOf({"update", "show", "hide", "setOrder"})
           => Has(state', call'.action.id) /\ Len(state') = Len(state)
       /\ EditOf({"update"})
           => LET before == Component(state, call'.action.id)
                  after == Component(state', call'.action.id)
                  given == call'.action.props
              IN /\ OnlyFieldChanged(before, after, "props")
                 /\ DOMAIN after.props = DOMAIN PropsOf(before) \cup DOMAIN given
                 /\ \A k \in DOMAIN given : after.props[k] = given[k]
                 /\ \A k \in DOMAIN PropsOf(before) \ DOMAIN given :
                        after.props[k] = before.props[k]
                 /\ batch'.updated = <<call'.action.id>>
       /\ EditOf({"show", "hide"})
           => LET before == Component(state, call'.action.id)
                  after == Component(state', call'.action.id)
                  show == call'.action.type = "show"
              IN IF Truthy(Field(before, "visible")) = show
                 THEN state' = state /\ NoneReported(batch')
                 ELSE /\ OnlyFieldChanged(before, after, "visible")
                      /\ after.visible = Some(show)
                      /\ batch'.visibilityChanged = <<call'.action.id>>
       /\ EditOf({"setOrder"})
           => LET before == Component(state, call'.action.id)
                  after == Component(state', call'.action.id)
              IN /\ OnlyFieldChanged(before, after, "order")
                 /\ after.order = Some(call'.action.order)
                 /\ batch'.updated = <<call'.action.id>>]_vars

\* an update of one key of a component that has two keys in its props, next to
\* another component
C30_Witness ==
    /\ call.op = "dispatch"
    /\ call.action.type = "update"
    /\ call.action.props = [x |-> 1]
    /\ Has(state, call.action.id)
    /\ Len(state) = 2
    /\ Component(state, call.action.id).props = [x |-> 1, y |-> 1]
    /\ batch.updated = <<call.action.id>>

-----------------------------------------------------------------------------
(* Properties of the derived facts *)

\* what get returns for the key, when it is a number, else 0
Read0(key) == IF IsNumber(get(data, key)) THEN get(data, key).num ELSE 0

BothSalariesRead ==
    IsNumber(get(data, "salary.currentMonth")) /\ IsNumber(get(data, "salary.lastMonth"))

\* C31: derived facts never go stale: in every state of the store, what get
\* returns for a derived key is its function of what get returns for its inputs
\* at that moment (salary.change is current minus last when both are numbers and
\* null otherwise), whatever is stored under the derived key itself.
C31_DerivedFactsFresh ==
    /\ get(data, "salary.change")
           = IF BothSalariesRead
             THEN Num(get(data, "salary.currentMonth").num - get(data, "salary.lastMonth").num)
             ELSE Null
    /\ get(data, "salary.changePercent")
           = IF BothSalariesRead /\ get(data, "salary.lastMonth").num # 0
             THEN Ratio((get(data, "salary.currentMonth").num
                            - get(data, "salary.lastMonth").num) * 100,
                        get(data, "salary.lastMonth").num)
             ELSE Null
    /\ get(data, "salary.trend")
           = IF ~IsNumber(get(data, "salary.change")) THEN Str("neutral")
             ELSE IF get(data, "salary.change").num >= 0 THEN Str("up") ELSE Str("down")
    /\ get(data, "expenses.total")
           = Num(Read0("expenses.rent") + Read0("expenses.utilities")
                 + Read0("expenses.groceries") + Read0("expenses.transport")
                 + Read0("expenses.entertainment") + Read0("expenses.savings")
                 + Read0("expenses.other"))
    /\ get(data, "income.total")
           = Num(Read0("income.baseSalary") + Read0("income.bonuses")
                 + Read0("income.overtime") + Read0("income.other"))
    /\ get(data, "accounts.netWorth")
           = Num(Read0("accounts.checking") + Read0("accounts.savings")
                 + Read0("accounts.investments") + Read0("accounts.retirement")
                 - Read0("debt.creditCard") - Read0("debt.studentLoan")
                 - Read0("debt.carLoan") - Read0("debt.mortgage"))

\* both salaries are stored as numbers, and an entry was stored under a derived
\* key whose value is not what the derivation gives
C31_Witness ==
    /\ BothSalariesRead
    /\ "expenses.total" \in DOMAIN data
    /\ data["expenses.total"].value # get(data, "expenses.total")
    /\ get(data, "salary.change") = Num(500)

-----------------------------------------------------------------------------
(* Properties of the suggestion component *)

\* the suggestion component this batch rendered, if it rendered one
RenderedSuggestions ==
    SelectSeq(batch.render, LAMBDA c : c.id = "predictive-actions")

\* C32: the suggestion component is recomputed after every edit batch: after a
\* processed intent the tree holds "predictive-actions" exactly when this batch
\* found its suggestions to qualify and rendered them, and the actions it shows
\* are the ones this batch rendered; a bar of an earlier batch does not survive.
C32_SuggestionsRecomputed ==
    Processed
        => /\ Has(state, "predictive-actions") <=> RenderedSuggestions # <<>>
           /\ Has(state, "predictive-actions")
                  => Component(state, "predictive-actions").props.actions
                         = RenderedSuggestions[1].props.actions

-----------------------------------------------------------------------------
(* Properties of the reference `this` *)

\* the ids the last batch touched, in the order they are recorded
Touched == batch.remove \o Ids(batch.update) \o Ids(batch.render)

\* C33: after every processed intent that touched at least one id, `this`
\* resolves to a component that is present in the tree, not to an id the batch
\* removed or that never existed.
C33_ThisIsInTheTree ==
    (Processed /\ Touched # <<>>)
        => /\ resolveReference(Mem, "this") # None
           /\ Has(state, resolveReference(Mem, "this")[1])

-----------------------------------------------------------------------------
(* Properties of the guard on destructive actions *)

\* C34: no text submitted through processUserInput removes all the components
\* of the tree by itself: of a tree of several components at least one is not
\* in the remove list of the batch the call returns.
C34_NoTypedClear ==
    [][(calls' = calls + 1 /\ call'.op = "processUserInput" /\ Len(state) >= 2)
          => \E i \in 1..Len(state) : state[i].id \notin Range(batch'.remove)]_vars

\* a confirmation dialog with the id is in the tree
DialogPending(id) == Has(state, id) /\ Component(state, id).type = "GuardrailModal"

\* C35: confirmDestructiveAction(dialogId) called when no confirmation dialog
\* with that id is in the tree leaves the tree and the fact store unchanged.
C35_ConfirmNeedsDialog ==
    [][(/\ calls' = calls + 1
        /\ call'.op = "confirmDestructiveAction"
        /\ ~DialogPending(call'.actionId))
          => UNCHANGED <<state, data, userProvidedKeys>>]_vars

-----------------------------------------------------------------------------
(* Properties of the returned batch *)

\* C36: every descriptor in the render list of the batch a call returns is in
\* the tree when the call returns, on the failure path too: a failed call leaves
\* the tree showing its informational component.
C36_RenderedIsInTheTree ==
    Decided => \A i \in 1..Len(batch.render) : Has(state, batch.render[i].id)

-----------------------------------------------------------------------------
(* Properties of a repeated render *)

\* the render of the last dispatch, of a component that is in the tree
Rerendered ==
    /\ calls' = calls + 1
    /\ call'.op = "dispatch"
    /\ call'.action.type = "render"
    /\ Has(state, call'.action.component.id)

\* C37: rendering a descriptor whose id is in the tree and that gives no order
\* leaves the component's order as it was, and one that gives no visible flag
\* leaves its visibility; after every edit each component of the tree (the
\* entries written under the name of a member of Object.prototype aside) has a
\* numeric order and a boolean visible.
C37_RerenderKeepsOrder ==
    [][/\ (Rerendered /\ Field(call'.action.component, "order") = None)
           => Field(Component(state', call'.action.component.id), "order")
                  = Field(Component(state, call'.action.component.id), "order")
       /\ (Rerendered /\ Field(call'.action.component, "visible") = None)
           => Field(Component(state', call'.action.component.id), "visible")
                  = Field(Component(state, call'.action.component.id), "visible")
       /\ (calls' = calls + 1 /\ call'.op \in {"dispatch", "dispatchAll"})
           => \A i \in 1..Len(state') :
                  \/ state'[i].id \in PrototypeKeys
                  \/ /\ Field(state'[i], "order") # None
                     /\ Field(state'[i], "visible") \in {Some(TRUE), Some(FALSE)}]_vars

-----------------------------------------------------------------------------
(* Properties of the lookup of a reference *)

\* keys a caller resolves: bound ones, in either case, and unbound ones
LookupKeys == {"this", "that", "Chart", "chart", "a", "B", "c", "x"}

\* some affected id of the intent log contains the key
InTheLog(lowerKey) ==
    \E n \in 1..Len(intents) : \E i \in 1..Len(intents[n].componentIds) :
        Includes(ToLowerCase(intents[n].componentIds[i]), lowerKey)

\* C38: resolveReference(key) returns the bound id when the key, in lower case,
\* is in the reference table; on a miss it returns an id only if some affected
\* id of the intent log contains the key, and then an id that contains the key;
\* otherwise it returns not-found.
C38_LookupThenLog ==
    \A key \in LookupKeys :
        IF ToLowerCase(key) \in DOMAIN references
        THEN resolveReference(Mem, key) = Some(references[ToLowerCase(key)].componentId)
        ELSE IF InTheLog(ToLowerCase(key))
        THEN /\ resolveReference(Mem, key) # None
             /\ Includes(ToLowerCase(resolveReference(Mem, key)[1]), ToLowerCase(key))
        ELSE resolveReference(Mem, key) = None

-----------------------------------------------------------------------------
(* The state machine of the fact store with import *)

\* what a caller imports: an exported store's entries, with their provenance
StoreImports ==
    {<<<<"notes.memo", [value |-> Str("x"), source |-> "user"]>>>>,
     <<<<"notes.memo", [value |-> Str("y"), source |-> "mock"]>>,
       <<"expenses.rent", [value |-> Num(1500), source |-> "mock"]>>>>}

StoreImport(entries) ==
    /\ calls < MaxStoreCalls
    /\ StoreCommit(import(Store, entries), [op |-> "import", entries |-> entries], None)

ImportNext ==
    \/ StoreNext
    \/ \E entries \in StoreImports : StoreImport(entries)

SpecImport == Init /\ [][ImportNext]_vars

-----------------------------------------------------------------------------
(* Properties of the provenance of the facts *)

\* C39: in every state of the fact store reachable by set, setMany, delete,
\* resetToMock, clear and import, isUserProvided(k) is true exactly when the
\* entry stored for k has user provenance, and the user and sample counts of
\* getSourceSummary are the numbers of stored entries with those provenances.
C39_UserMarkIsProvenance ==
    /\ \A k \in StoreKeys \cup DOMAIN data \cup userProvidedKeys :
           isUserProvided(Store, k) <=> (k \in DOMAIN data /\ data[k].source = "user")
    /\ getSourceSummary(data).user
           = Cardinality({k \in DOMAIN data : data[k].source = "user"})
    /\ getSourceSummary(data).mock
           = Cardinality({k \in DOMAIN data : data[k].source = "mock"})

====
